---- MODULE Spec2Model ----
(***************************************************************************)
(* OpenClaw Guardian health fetcher (layer2-audit/health_fetcher.py).      *)
(*                                                                         *)
(* Two computations are modelled:                                          *)
(*   parse_llm_status  - one pass over log lines that builds the per-model *)
(*                       status matrix, the event list and last_seen;      *)
(*   analyze_restarts  - scan of restart signal lines, the 90 s merge and  *)
(*                       the 120 s watchdog attribution.                   *)
(*                                                                         *)
(* Time is in whole seconds.  A log line is the record of what the         *)
(* module's regular expressions find in it; a model id is the tuple of its *)
(* parts around the first "/" (<<provider, model>>, or <<model>> when the  *)
(* id has no slash); a status is <<glyph, label>>; a diagnosis is the      *)
(* tuple <<leading text, details...>>.                                     *)
(***************************************************************************)
EXTENDS Integers, Sequences, FiniteSets, TLC

\* ------------------------------------------------------------------ bounds
MaxLines == 3
MaxRestartLines == 3
MaxWatchdogEvents == 1

\* ------------------------------------------------------- program constants
DefaultCooldownStickyMinutes == 240
DefaultRateLimitStickyMinutes == 30
TimeoutStickyMinutes == 30
ContextStickyHours == 6
ShortResetHours == 1
MergeWindowSeconds == 90
WatchdogWindowSeconds == 120
TzOffsetSeconds == 28800

NoTs == -1
NoRef == << >>
NoReset == << >>
NoText == << >>
NoRow == [Provider |-> "", Model |-> "", Status |-> << >>, Diagnosis |-> << >>]

Minutes(n) == 60 * n
Hours(n) == 3600 * n

\* ------------------------------------------------------------ status values
Healthy == <<"green", "healthy">>
ThrottleStatus == <<"yellow", "transient throttle">>
RateLimitStatus == <<"yellow", "429 rate limit">>
QuotaStatus == <<"red", "429 quota/capacity">>
TimeoutStatus == <<"yellow", "connect timeout">>
ContextStatus == <<"yellow", "token/context limit">>
MissingKeyStatus == <<"red", "config missing">>
InvalidModelStatus == <<"red", "invalid model">>

DefaultDiag == <<"stable", "ready">>
MissingKeyDiag == <<"no API key configured (provider auth failed)">>
InvalidModelDiag == <<"Unknown model / not allowed">>
AggCooldownDiag == <<"Provider cooldown / transient throttle (seen in window)">>
CooldownDiag == <<"Cooldown / transient throttle (seen in window)">>
ProviderCooldownDiag == <<"Provider cooldown (all profiles of the provider unavailable)">>
TimeoutDiag == <<"timeout / ETIMEDOUT (seen in window)">>
ContextDiag == <<"token/context limit hit (seen in window)">>
RateDefaultDiag == <<"429 rate limit (maybe RPM/concurrency)">>

\* a.lstrip()[:1]
Glyph(s) == IF Len(s) = 0 THEN "" ELSE s[1]

\* order = {red: 3, yellow: 2, green: 1}; order.get(e, 0)
Order(g) == CASE g = "red" -> 3 [] g = "yellow" -> 2 [] g = "green" -> 1 [] OTHER -> 0

worse_keep_incoming(a, b) == b

worse_strict(a, b) == IF Order(Glyph(a)) > Order(Glyph(b)) THEN a ELSE b

_worse_status(a, b) == IF Order(Glyph(a)) >= Order(Glyph(b)) THEN a ELSE b

\* Diagnosis.startswith("状态稳定")
IsGeneric(d) == Len(d) > 0 /\ d[1] = "stable"

\* ----------------------------------------------------------------- durations
\* A raw duration text is <<h, m, s>>, -1 for a unit that is absent
\* ("45m" is <<-1, 45, -1>>, the empty match is <<-1, -1, -1>>).
Unit(n) == IF n < 0 THEN 0 ELSE n

\* None is modelled as 0: the function never returns a zero timedelta.
_parse_hms_duration(raw) ==
    IF raw = <<-1, -1, -1>> THEN 0
    ELSE Hours(Unit(raw[1])) + Minutes(Unit(raw[2])) + Unit(raw[3])

\* [td, raw]; td = 0 stands for None (no match, or not parseable).
_reset_after_from_text(reset) ==
    IF reset = NoReset THEN [td |-> 0, raw |-> NoReset]
    ELSE IF _parse_hms_duration(reset) = 0 THEN [td |-> 0, raw |-> NoReset]
    ELSE [td |-> _parse_hms_duration(reset), raw |-> reset]

\* strftime("%H:%M") in the target timezone: minute of the local day.
_fmt_local(ts) == ((ts + TzOffsetSeconds) \div 60) % 1440

UnknownTime == -1

\* ------------------------------------------------------------------ catalog
HasSlash(mid) == Len(mid) = 2
ProviderOf(mid) == IF HasSlash(mid) THEN mid[1] ELSE "unknown"
ModelOf(mid) == IF HasSlash(mid) THEN mid[2] ELSE mid[1]

ModelRef(mid) == [model_id |-> mid, provider |-> ProviderOf(mid), model |-> ModelOf(mid)]

\* get_configured_models(config): the configured ids, deduplicated, in order.
models == << ModelRef(<<"acme", "gpt-x">>), ModelRef(<<"acme", "gpt-y">>), ModelRef(<<"beta", "m1">>) >>

ModelIds == {models[i].model_id : i \in 1..Len(models)}

NewRow(mid, status, diag) ==
    [Provider |-> ProviderOf(mid), Model |-> ModelOf(mid), Status |-> status, Diagnosis |-> diag]

InitMatrix == [mid \in ModelIds |-> NewRow(mid, Healthy, DefaultDiag)]

\* by_provider_model.get((provider, model)): the configured id, or NoRef.
by_provider_model(p, m) ==
    IF \E i \in 1..Len(models) : models[i].provider = p /\ models[i].model = m
    THEN (CHOOSE r \in {models[i] : i \in 1..Len(models)} : r.provider = p /\ r.model = m).model_id
    ELSE NoRef

\* --------------------------------------------------------------- aggregator
\* The pass state: matrix (model id -> row), events (raw list), last_seen
\* (model id -> <<ts, kind>>) and log, the history of the incident
\* applications made so far (one entry per apply / apply_incident call made
\* by a line rule, with the row before and after it).
EmptyFn == [x \in {} |-> NoRow]

InitState == [matrix |-> InitMatrix, events |-> << >>, last_seen |-> EmptyFn, log |-> << >>]

RowOf(st, mid) == IF mid \in DOMAIN st.matrix THEN st.matrix[mid] ELSE NoRow

diag_only_over_generic(cur, newStatus, diagnosis) ==
    IF diagnosis # NoText /\ IsGeneric(cur) THEN diagnosis ELSE cur

\* lines 288-291: the diagnosis slot of apply (newStatus is the row's status
\* after the worse-of update).
NextDiagnosis(cur, newStatus, diagnosis) ==
    IF diagnosis # NoText /\ (IsGeneric(cur) \/ Glyph(newStatus) # "green")
    THEN diagnosis ELSE cur

apply(st, mid, status, diagnosis, event) ==
    LET m1 == IF mid \in DOMAIN st.matrix THEN st.matrix
              ELSE (mid :> NewRow(mid, Healthy, DefaultDiag)) @@ st.matrix
        s2 == _worse_status(m1[mid].Status, status)
        d2 == NextDiagnosis(m1[mid].Diagnosis, s2, diagnosis)
    IN [st EXCEPT !.matrix = [m1 EXCEPT ![mid] = [@ EXCEPT !.Status = s2, !.Diagnosis = d2]],
                  !.events = IF event # NoText THEN Append(@, event) ELSE @]

record_last_unguarded(st, ts, mid, kind) ==
    IF mid \notin DOMAIN st.last_seen \/ ts > st.last_seen[mid][1]
    THEN [st EXCEPT !.last_seen = (mid :> <<ts, kind>>) @@ @]
    ELSE st

record_last(st, ts, mid, kind) ==
    IF ts = NoTs THEN st
    ELSE IF mid \notin DOMAIN st.last_seen \/ ts > st.last_seen[mid][1]
         THEN [st EXCEPT !.last_seen = (mid :> <<ts, kind>>) @@ @]
         ELSE st

active_at_expiry(ts, sticky_until, now) == ts # NoTs /\ sticky_until # NoTs /\ now <= sticky_until

\* lines 312-314
IsActive(ts, sticky_until, now) == ts # NoTs /\ sticky_until # NoTs /\ now < sticky_until

Breadcrumb(ts_local, kind) == <<"last anomaly", ts_local, kind, "outside window / possibly recovered">>

IsBreadcrumb(d) == Len(d) > 0 /\ d[1] = "last anomaly"

stale_always(row, crumb) == crumb

stale_only_if_generic(row, crumb) == IF IsGeneric(row.Diagnosis) THEN crumb ELSE row.Diagnosis

\* lines 322-323
StaleDiagnosis(row, crumb) == IF Glyph(row.Status) = "green" THEN crumb ELSE row.Diagnosis

LocalTime(ts) == IF ts = NoTs THEN UnknownTime ELSE _fmt_local(ts)

LogEntry(st, st2, mid, kind, ts, sticky, status, diagnosis, sticks) ==
    [mid |-> mid, kind |-> kind, ts |-> ts, sticky_until |-> sticky, sticks |-> sticks,
     status |-> status, diagnosis |-> diagnosis,
     pre |-> RowOf(st, mid), post |-> RowOf(st2, mid),
     events |-> Len(st2.events) - Len(st.events),
     last_event |-> IF Len(st2.events) > Len(st.events) THEN st2.events[Len(st2.events)] ELSE NoText]

Logged(st, st2, mid, kind, ts, sticky, status, diagnosis, sticks) ==
    [st2 EXCEPT !.log = Append(@, LogEntry(st, st2, mid, kind, ts, sticky, status, diagnosis, sticks))]

incident_silent_when_stale(st, now, ts, mid, kind, base_status, diagnosis, sticky_until, event) ==
    LET acted ==
            IF IsActive(ts, sticky_until, now)
            THEN apply(st, mid, base_status, diagnosis, event)
            ELSE IF mid \notin DOMAIN st.matrix THEN st
            ELSE [st EXCEPT !.matrix[mid].Diagnosis =
                                StaleDiagnosis(st.matrix[mid], Breadcrumb(LocalTime(ts), kind))]
    IN Logged(st, record_last(acted, ts, mid, kind), mid, kind, ts, sticky_until,
              base_status, diagnosis, TRUE)

apply_incident(st, now, ts, mid, kind, base_status, diagnosis, sticky_until, event) ==
    LET acted ==
            IF IsActive(ts, sticky_until, now)
            THEN apply(st, mid, base_status, diagnosis, event)
            ELSE LET s1 == IF mid \notin DOMAIN st.matrix
                           THEN apply(st, mid, Healthy, DefaultDiag, NoText) ELSE st
                     crumb == Breadcrumb(LocalTime(ts), kind)
                 IN [s1 EXCEPT !.matrix[mid].Diagnosis = StaleDiagnosis(s1.matrix[mid], crumb),
                               !.events = IF event # NoText THEN Append(@, event) ELSE @]
    IN Logged(st, record_last(acted, ts, mid, kind), mid, kind, ts, sticky_until,
              base_status, diagnosis, TRUE)

StickyUntil(ts, d) == IF ts = NoTs THEN NoTs ELSE ts + d

\* ---------------------------------------------------------------- line rules
\* A message (the text of a line, or of one aggregate segment) is
\*   [cooldown, rl, reset, timeout, ctx]: contains "cooldown"; contains "429",
\*   "rate_limit" or the capacity phrase; the text after "reset after" (NoReset
\*   when the phrase is absent); contains "timeout"/"etimedout"; matches
\*   CONTEXT_LIMIT_RE.
Recovery(info) == IF info.td # 0 /\ info.raw # NoReset THEN <<"resets in", info.raw>> ELSE NoText

rate_short_below_hour(ts, reset, rate_limit_sticky_minutes) ==
    LET info == _reset_after_from_text(reset)
    IN  IF info.td # 0 /\ info.td < Hours(ShortResetHours)
        THEN [status |-> RateLimitStatus, sticky_until |-> StickyUntil(ts, info.td),
              diagnosis |-> <<"429 rate limit (short-term/RPM likely)">> \o Recovery(info)]
        ELSE IF info.td # 0
        THEN [status |-> QuotaStatus, sticky_until |-> StickyUntil(ts, info.td),
              diagnosis |-> <<"429 quota/capacity limit (wait for reset)">> \o Recovery(info)]
        ELSE [status |-> RateLimitStatus,
              sticky_until |-> StickyUntil(ts, Minutes(rate_limit_sticky_minutes)),
              diagnosis |-> RateDefaultDiag]

\* lines 362-373 and 502-513: severity, sticky-until and diagnosis of a rate limit.
RateLimitPolicy(ts, reset, rate_limit_sticky_minutes) ==
    LET info == _reset_after_from_text(reset)
    IN  IF info.td # 0 /\ info.td <= Hours(ShortResetHours)
        THEN [status |-> RateLimitStatus, sticky_until |-> StickyUntil(ts, info.td),
              diagnosis |-> <<"429 rate limit (short-term/RPM likely)">> \o Recovery(info)]
        ELSE IF info.td # 0
        THEN [status |-> QuotaStatus, sticky_until |-> StickyUntil(ts, info.td),
              diagnosis |-> <<"429 quota/capacity limit (wait for reset)">> \o Recovery(info)]
        ELSE [status |-> RateLimitStatus,
              sticky_until |-> StickyUntil(ts, Minutes(rate_limit_sticky_minutes)),
              diagnosis |-> RateDefaultDiag]

ModelEvent(ts, mid, kind, recovery) == <<LocalTime(ts), "model", mid, kind>> \o recovery

classify_rate_first(st, cfg, ts, mid, msg, agg) ==
    IF msg.rl
    THEN LET pol == RateLimitPolicy(ts, msg.reset, cfg.rate_limit_sticky_minutes)
         IN apply_incident(st, cfg.now, ts, mid, "429/rate_limit", pol.status, pol.diagnosis,
                           pol.sticky_until,
                           ModelEvent(ts, mid, "429/rate_limit",
                                      Recovery(_reset_after_from_text(msg.reset))))
    ELSE IF msg.cooldown
    THEN apply_incident(st, cfg.now, ts, mid, "cooldown", ThrottleStatus,
                        IF agg THEN AggCooldownDiag ELSE CooldownDiag,
                        StickyUntil(ts, Minutes(cfg.cooldown_sticky_minutes)),
                        ModelEvent(ts, mid, "cooldown", NoText))
    ELSE st

\* lines 350-401 (agg = TRUE) and 487-541 (agg = FALSE): the sub-rules
\* cooldown > rate limit > timeout > context limit for one model id.
Classify(st, cfg, ts, mid, msg, agg) ==
    IF msg.cooldown
    THEN apply_incident(st, cfg.now, ts, mid, "cooldown", ThrottleStatus,
                        IF agg THEN AggCooldownDiag ELSE CooldownDiag,
                        StickyUntil(ts, Minutes(cfg.cooldown_sticky_minutes)),
                        ModelEvent(ts, mid, "cooldown", NoText))
    ELSE IF msg.rl
    THEN LET pol == RateLimitPolicy(ts, msg.reset, cfg.rate_limit_sticky_minutes)
         IN apply_incident(st, cfg.now, ts, mid, "429/rate_limit", pol.status, pol.diagnosis,
                           pol.sticky_until,
                           ModelEvent(ts, mid, "429/rate_limit",
                                      Recovery(_reset_after_from_text(msg.reset))))
    ELSE IF msg.timeout
    THEN apply_incident(st, cfg.now, ts, mid, "timeout", TimeoutStatus, TimeoutDiag,
                        StickyUntil(ts, Minutes(TimeoutStickyMinutes)),
                        ModelEvent(ts, mid, "timeout", NoText))
    ELSE IF msg.ctx
    THEN apply_incident(st, cfg.now, ts, mid, "token/context limit", ContextStatus, ContextDiag,
                        StickyUntil(ts, Hours(ContextStickyHours)),
                        ModelEvent(ts, mid, "token/context limit", NoText))
    ELSE st

segment_any_colon(st, seg) == seg.colon

\* lines 339-347: a segment is used when it has a colon and its id holds a
\* slash or is already a key of matrix.
SegmentAccepted(st, seg) ==
    /\ seg.colon
    /\ HasSlash(seg.mid) \/ seg.mid \in DOMAIN st.matrix

\* lines 334-401: the segments of an "all models failed (N): ..." body, in order.
\* A segment is [colon, mid, msg].
RECURSIVE AggregateSegments(_, _, _, _)
AggregateSegments(st, cfg, ts, segs) ==
    IF segs = << >> THEN st
    ELSE LET seg == Head(segs)
             st2 == IF ~SegmentAccepted(st, seg) THEN st
                    ELSE Classify(st, cfg, ts, seg.mid, seg.msg, TRUE)
         IN AggregateSegments(st2, cfg, ts, Tail(segs))

\* lines 158-178: [provider, model, model_id], NoRef / "" for None.
_extract_provider_model(line) ==
    IF line.pm # NoRef
    THEN [provider |-> line.pm[1], model |-> line.pm[2], model_id |-> line.pm]
    ELSE IF line.quoted # NoRef
    THEN [provider |-> IF HasSlash(line.quoted) THEN line.quoted[1] ELSE "",
          model |-> ModelOf(line.quoted), model_id |-> line.quoted]
    ELSE [provider |-> "", model |-> "", model_id |-> NoRef]

\* m.model_id in line: the ids the line's text holds.
ContainsId(line, mid) == mid \in line.ids \/ line.quoted = mid \/ line.unknown = mid

find_refs_none(line, ms) == << >>

\* lines 233-240
RECURSIVE _find_model_refs_in_line(_, _)
_find_model_refs_in_line(line, ms) ==
    IF ms = << >> THEN << >>
    ELSE (IF ContainsId(line, Head(ms).model_id) THEN <<Head(ms).model_id>> ELSE << >>)
         \o _find_model_refs_in_line(line, Tail(ms))

nokey_every_model(m, p) == TRUE

\* line 419
UnderProvider(m, p) == m.provider = p

\* lines 418-421
RECURSIVE NoApiKeyFanOut(_, _, _, _)
NoApiKeyFanOut(st, ts, p, ms) ==
    IF ms = << >> THEN st
    ELSE LET m == Head(ms)
             st2 == IF ~UnderProvider(m, p) THEN st
                    ELSE Logged(st, apply(st, m.model_id, MissingKeyStatus, MissingKeyDiag, NoText),
                                m.model_id, "no_api_key", ts, NoTs, MissingKeyStatus,
                                MissingKeyDiag, FALSE)
         IN NoApiKeyFanOut(st2, ts, p, Tail(ms))

\* lines 428-439
RECURSIVE ProviderCooldownFanOut(_, _, _, _, _)
ProviderCooldownFanOut(st, cfg, ts, p, ms) ==
    IF ms = << >> THEN st
    ELSE LET m == Head(ms)
             st2 == IF m.provider # p THEN st
                    ELSE apply_incident(st, cfg.now, ts, m.model_id, "provider cooldown",
                                        ThrottleStatus, ProviderCooldownDiag,
                                        StickyUntil(ts, Minutes(cfg.cooldown_sticky_minutes)),
                                        NoText)
         IN ProviderCooldownFanOut(st2, cfg, ts, p, Tail(ms))

\* lines 478-541
RECURSIVE AttributedModels(_, _, _, _, _)
AttributedModels(st, cfg, ts, line, mids) ==
    IF mids = << >> THEN st
    ELSE LET mid == Head(mids)
             st1 == IF mid \in DOMAIN st.matrix THEN st
                    ELSE [st EXCEPT !.matrix = (mid :> NewRow(mid, Healthy, DefaultDiag)) @@ @]
             msg == [line.msg EXCEPT !.cooldown = @ \/ line.cdProvider # ""]
         IN AttributedModels(Classify(st1, cfg, ts, mid, msg, FALSE), cfg, ts, line, Tail(mids))

ProviderEvent(ts, p, what) == <<LocalTime(ts), "provider", p, what>>

unknown_existing_only(st, ts, mid) ==
    LET st1 == [st EXCEPT !.events = Append(@, <<LocalTime(ts), "model", mid, "Unknown/Not allowed">>)]
        st2 == IF mid \notin DOMAIN st1.matrix THEN st1
               ELSE apply(st1, mid, InvalidModelStatus, InvalidModelDiag, NoText)
    IN Logged(st, st2, mid, "unknown_model", ts, NoTs, InvalidModelStatus, InvalidModelDiag, FALSE)

\* lines 443-456: "Unknown model: X" / 'Model "X" is not allowed'.
UnknownModel(st, ts, mid) ==
    LET st1 == [st EXCEPT !.events = Append(@, <<LocalTime(ts), "model", mid, "Unknown/Not allowed">>)]
        st2 == IF mid \notin DOMAIN st1.matrix
               THEN [st1 EXCEPT !.matrix = (mid :> NewRow(mid, InvalidModelStatus, InvalidModelDiag)) @@ @]
               ELSE apply(st1, mid, InvalidModelStatus, InvalidModelDiag, NoText)
    IN Logged(st, st2, mid, "unknown_model", ts, NoTs, InvalidModelStatus, InvalidModelDiag, FALSE)

unattributed_timeout_too(st, ts, line) ==
    IF line.msg.rl
    THEN [st EXCEPT !.events = Append(@, <<LocalTime(ts), "rate_limit(unknown model)">>
                                         \o Recovery(_reset_after_from_text(line.msg.reset)))]
    ELSE IF line.msg.ctx \/ line.msg.timeout
    THEN [st EXCEPT !.events = Append(@, <<LocalTime(ts), "token/context limit (unknown model)">>)]
    ELSE st

\* lines 465-476: no model id can be attributed.
Unattributed(st, ts, line) ==
    IF line.msg.rl
    THEN [st EXCEPT !.events = Append(@, <<LocalTime(ts), "rate_limit(unknown model)">>
                                         \o Recovery(_reset_after_from_text(line.msg.reset)))]
    ELSE IF line.msg.ctx
    THEN [st EXCEPT !.events = Append(@, <<LocalTime(ts), "token/context limit (unknown model)">>)]
    ELSE st

other_agent_lane_only(line) == line.lane \notin {"", "main"}

\* lines 269-274: the line names a lane agent, or an agent directory, that is
\* not main ("" = the marker is absent).
OtherAgent(line) ==
    \/ line.lane \notin {"", "main"}
    \/ line.agentDir \notin {"", "main"}

\* lines 267-541: the body of the loop over the lines, for one line.
\* cfg = [now, cooldown_sticky_minutes, rate_limit_sticky_minutes].
LineStep(st, cfg, line) ==
    IF OtherAgent(line) THEN st
    ELSE IF line.failed THEN AggregateSegments(st, cfg, line.ts, line.segs)
    ELSE LET ex == _extract_provider_model(line)
             resolved == IF ex.provider # "" /\ ex.model # ""
                         THEN by_provider_model(ex.provider, ex.model) ELSE NoRef
             model_id == IF resolved # NoRef THEN resolved ELSE ex.model_id
             matched_models == IF model_id = NoRef
                               THEN _find_model_refs_in_line(line, models) ELSE << >>
             um == IF line.unknown # NoRef THEN line.unknown
                   ELSE IF line.notAllowed THEN line.quoted ELSE NoRef
             model_ids == IF model_id # NoRef THEN <<model_id>> ELSE matched_models
         IN  IF line.noKey # ""
             THEN NoApiKeyFanOut(
                      [st EXCEPT !.events = Append(@, ProviderEvent(line.ts, line.noKey, "No API key"))],
                      line.ts, line.noKey, models)
             ELSE IF line.cdProvider # "" /\ model_id = NoRef /\ matched_models = << >>
             THEN ProviderCooldownFanOut(
                      [st EXCEPT !.events = Append(@, ProviderEvent(line.ts, line.cdProvider, "cooldown"))],
                      cfg, line.ts, line.cdProvider, models)
             ELSE IF um # NoRef THEN UnknownModel(st, line.ts, um)
             ELSE IF model_ids = << >> THEN Unattributed(st, line.ts, line)
             ELSE AttributedModels(st, cfg, line.ts, line, model_ids)

\* ------------------------------------------------------------------- inputs
Quiet == [cooldown |-> FALSE, rl |-> FALSE, reset |-> NoReset, timeout |-> FALSE, ctx |-> FALSE]

Plain == [lane |-> "", agentDir |-> "", ts |-> 0, failed |-> FALSE, segs |-> << >>,
          pm |-> NoRef, quoted |-> NoRef, notAllowed |-> FALSE, unknown |-> NoRef,
          noKey |-> "", cdProvider |-> "", ids |-> {}, msg |-> Quiet]

GptX == <<"acme", "gpt-x">>
GptY == <<"acme", "gpt-y">>
BetaM1 == <<"beta", "m1">>
ZetaZ9 == <<"zeta", "z9">>
Solo == <<"solo">>

RateMsg(reset) == [Quiet EXCEPT !.rl = TRUE, !.reset = reset]

Reset45m == <<-1, 45, -1>>
Reset60m == <<-1, 60, -1>>
Reset1h0m1s == <<1, 0, 1>>
Reset3h == <<3, -1, -1>>
ResetZero == <<-1, -1, 0>>
ResetEmpty == <<-1, -1, -1>>

Seg(mid, msg) == [colon |-> TRUE, mid |-> mid, msg |-> msg]

RateLines ==
    {[Plain EXCEPT !.pm = GptX, !.msg = RateMsg(r)] :
        r \in {NoReset, ResetZero, Reset45m, Reset60m, Reset1h0m1s, Reset3h}}
    \cup {[Plain EXCEPT !.pm = GptX, !.msg = RateMsg(Reset45m), !.ts = t] : t \in {NoTs, 900}}

StickyLines ==
    {[Plain EXCEPT !.pm = GptX, !.msg.cooldown = TRUE],
     [Plain EXCEPT !.pm = GptX, !.msg = [RateMsg(Reset3h) EXCEPT !.cooldown = TRUE]],
     [Plain EXCEPT !.ids = {BetaM1}, !.msg.timeout = TRUE],
     [Plain EXCEPT !.ids = {BetaM1}, !.msg.timeout = TRUE, !.ts = 900],
     [Plain EXCEPT !.pm = ZetaZ9, !.msg.ctx = TRUE],
     [Plain EXCEPT !.ids = {GptY, BetaM1}, !.msg = RateMsg(ResetEmpty), !.ts = 900]}

ProviderLines ==
    {[Plain EXCEPT !.noKey = "acme"],
     [Plain EXCEPT !.noKey = "beta", !.ts = NoTs],
     [Plain EXCEPT !.cdProvider = "acme"],
     [Plain EXCEPT !.cdProvider = "acme", !.ids = {GptY}]}

UnknownLines ==
    {[Plain EXCEPT !.unknown = ZetaZ9],
     [Plain EXCEPT !.unknown = BetaM1],
     [Plain EXCEPT !.quoted = Solo, !.notAllowed = TRUE]}

AggregateLines ==
    {[Plain EXCEPT !.failed = TRUE,
                   !.segs = <<Seg(GptX, RateMsg(Reset3h)), Seg(Solo, [Quiet EXCEPT !.cooldown = TRUE]),
                              Seg(BetaM1, [Quiet EXCEPT !.timeout = TRUE])>>],
     [Plain EXCEPT !.failed = TRUE, !.noKey = "beta",
                   !.segs = <<Seg(ZetaZ9, [Quiet EXCEPT !.ctx = TRUE]),
                              [colon |-> FALSE, mid |-> GptY, msg |-> RateMsg(NoReset)]>>]}

OtherLines ==
    {[Plain EXCEPT !.lane = "buddy", !.noKey = "acme"],
     [Plain EXCEPT !.agentDir = "buddy", !.pm = GptX, !.msg = RateMsg(Reset3h)],
     [Plain EXCEPT !.lane = "main", !.agentDir = "main", !.pm = GptY, !.msg.timeout = TRUE],
     [Plain EXCEPT !.msg = RateMsg(Reset45m)],
     [Plain EXCEPT !.msg.ctx = TRUE],
     [Plain EXCEPT !.msg.timeout = TRUE]}

Lines == RateLines \cup StickyLines \cup ProviderLines \cup UnknownLines \cup AggregateLines \cup OtherLines

NowSet == {1799, 1800, 3600, 14400}

\* -------------------------------------------------------------------- state
VARIABLES
    now_utc, cooldown_sticky_minutes, rate_limit_sticky_minutes,
    matrix, events, last_seen,
    log, mark, line, consumed, pc,
    lines, rows, uniq_events,
    watchdog_events, wd_restart_times, restarts, merged, owner, out, scanned, rpc,
    worse_in, worse_out

llm_vars == <<now_utc, cooldown_sticky_minutes, rate_limit_sticky_minutes,
              matrix, events, last_seen, log, mark, line, consumed, pc,
              lines, rows, uniq_events>>

restart_vars == <<watchdog_events, wd_restart_times, restarts, merged, owner, out, scanned, rpc>>

pure_vars == <<worse_in, worse_out>>

vars == <<llm_vars, restart_vars, pure_vars>>

State == [matrix |-> matrix, events |-> events, last_seen |-> last_seen, log |-> log]

Config == [now |-> now_utc, cooldown_sticky_minutes |-> cooldown_sticky_minutes,
           rate_limit_sticky_minutes |-> rate_limit_sticky_minutes]

InitLlm ==
    /\ now_utc \in NowSet
    /\ cooldown_sticky_minutes = DefaultCooldownStickyMinutes
    /\ rate_limit_sticky_minutes = DefaultRateLimitStickyMinutes
    /\ matrix = InitState.matrix
    /\ events = InitState.events
    /\ last_seen = InitState.last_seen
    /\ log = InitState.log
    /\ mark = 0
    /\ line = Plain
    /\ consumed = 0
    /\ pc = "loop"
    /\ lines = << >>
    /\ rows = << >>
    /\ uniq_events = << >>

ProcessLine(l) ==
    /\ pc = "loop"
    /\ consumed < MaxLines
    /\ LET st == LineStep(State, Config, l)
       IN /\ matrix' = st.matrix
          /\ events' = st.events
          /\ last_seen' = st.last_seen
          /\ log' = st.log
    /\ mark' = Len(log)
    /\ line' = l
    /\ consumed' = consumed + 1
    /\ UNCHANGED <<now_utc, cooldown_sticky_minutes, rate_limit_sticky_minutes, pc>>
    /\ UNCHANGED <<lines, rows, uniq_events>>
    /\ UNCHANGED restart_vars
    /\ UNCHANGED pure_vars


\* --------------------------------------------------------- analyze_restarts
\* A restart signal line is [signal, ts]; a watchdog audit record is
\* [type, ts] (ts = NoTs when the timestamp does not parse).  A candidate and
\* a merged record are <<ts, reason>>.
ReasonOf(signal) ==
    CASE signal = "sigusr1" -> "config change (SIGUSR1)"
      [] signal = "sigterm" -> "service restart (SIGTERM)"
      [] signal = "crash" -> "abnormal exit / crash"
      [] OTHER -> ""

crash_never(reason) == FALSE

\* "异常" in reason
IsCrash(reason) == reason = "abnormal exit / crash"

WatchdogReason == "watchdog self-heal"

\* lines 602-613
RECURSIVE WatchdogTimes(_)
WatchdogTimes(evs) ==
    IF evs = << >> THEN << >>
    ELSE (IF Head(evs).type = "gateway_restart" /\ Head(evs).ts # NoTs
          THEN <<Head(evs).ts>> ELSE << >>) \o WatchdogTimes(Tail(evs))

Abs(x) == IF x < 0 THEN -x ELSE x

insert_front(sorted, c) == <<c>> \o sorted

\* restarts.sort(key=ts, reverse=True): stable, newest first.
RECURSIVE InsertDesc(_, _)
InsertDesc(sorted, c) ==
    IF sorted = << >> THEN <<c>>
    ELSE IF Head(sorted)[1] >= c[1] THEN <<Head(sorted)>> \o InsertDesc(Tail(sorted), c)
    ELSE <<c>> \o sorted

sort_none(cands) == cands

RECURSIVE SortDesc(_)
SortDesc(cands) ==
    IF cands = << >> THEN << >>
    ELSE InsertDesc(SortDesc(SubSeq(cands, 1, Len(cands) - 1)), cands[Len(cands)])

near_previous_candidate(kept, prev, ts) == Abs(prev - ts) <= MergeWindowSeconds

near_strictly_inside(kept, prev, ts) == Abs(kept - ts) < MergeWindowSeconds

\* line 636: kept is merged[-1][0]; prev is the timestamp of the candidate
\* visited just before ts.
Near(kept, prev, ts) == Abs(kept - ts) <= MergeWindowSeconds

attributed_before_only(wts, ts) == wts <= ts /\ ts - wts <= WatchdogWindowSeconds

\* line 647
Attributed(wts, ts) == Abs(wts - ts) <= WatchdogWindowSeconds

\* lines 645-650, for one merged record
AttributedReason(rec, wts) ==
    IF \E i \in 1..Len(wts) : Attributed(wts[i], rec[1]) THEN WatchdogReason ELSE rec[2]

RestartSignals ==
    {[signal |-> "sigusr1", ts |-> t] : t \in {NoTs, 0, 120, 211}}
    \cup {[signal |-> "sigterm", ts |-> t] : t \in {90, 120}}
    \cup {[signal |-> "crash", ts |-> t] : t \in {0, 90}}
    \cup {[signal |-> "", ts |-> 90]}

WatchdogRecords ==
    {[type |-> "gateway_restart", ts |-> t] : t \in {NoTs, 0, 90, 331}}
    \cup {[type |-> "gateway_start", ts |-> 0]}

RECURSIVE SeqsUpTo(_, _)
SeqsUpTo(S, n) ==
    IF n = 0 THEN {<< >>}
    ELSE SeqsUpTo(S, n - 1) \cup {Append(q, x) : q \in {r \in SeqsUpTo(S, n - 1) : Len(r) = n - 1}, x \in S}

InitRestarts ==
    /\ watchdog_events \in SeqsUpTo(WatchdogRecords, MaxWatchdogEvents)
    /\ wd_restart_times = << >>
    /\ restarts = << >>
    /\ merged = << >>
    /\ owner = << >>
    /\ out = << >>
    /\ scanned = 0
    /\ rpc = "watchdog"

\* lines 602-613
ReadWatchdog ==
    /\ rpc = "watchdog"
    /\ wd_restart_times' = WatchdogTimes(watchdog_events)
    /\ rpc' = "scan"
    /\ UNCHANGED <<watchdog_events, restarts, merged, owner, out, scanned>>
    /\ UNCHANGED llm_vars
    /\ UNCHANGED pure_vars

\* lines 615-630, one line
ScanLine(l) ==
    /\ rpc = "scan"
    /\ scanned < MaxRestartLines
    /\ restarts' = IF ReasonOf(l.signal) # "" /\ l.ts # NoTs
                   THEN Append(restarts, <<l.ts, ReasonOf(l.signal)>>) ELSE restarts
    /\ scanned' = scanned + 1
    /\ UNCHANGED <<watchdog_events, wd_restart_times, merged, owner, out, rpc>>
    /\ UNCHANGED llm_vars
    /\ UNCHANGED pure_vars

\* line 633
SortRestarts ==
    /\ rpc = "scan"
    /\ restarts' = SortDesc(restarts)
    /\ rpc' = "merge"
    /\ UNCHANGED <<watchdog_events, wd_restart_times, merged, owner, out, scanned>>
    /\ UNCHANGED llm_vars
    /\ UNCHANGED pure_vars

\* lines 635-641, one candidate; owner[i] is the index in merged of the record
\* that holds the i-th sorted candidate.
MergeStep ==
    /\ rpc = "merge"
    /\ Len(owner) < Len(restarts)
    /\ LET i == Len(owner) + 1
           ts == restarts[i][1]
           reason == restarts[i][2]
       IN IF merged # << >> /\ Near(merged[Len(merged)][1], restarts[i - 1][1], ts)
          THEN /\ merged' = IF IsCrash(reason)
                            THEN [merged EXCEPT ![Len(merged)] = <<@[1], reason>>] ELSE merged
               /\ owner' = Append(owner, Len(merged))
          ELSE /\ merged' = Append(merged, <<ts, reason>>)
               /\ owner' = Append(owner, Len(merged) + 1)
    /\ UNCHANGED <<watchdog_events, wd_restart_times, restarts, out, scanned, rpc>>
    /\ UNCHANGED llm_vars
    /\ UNCHANGED pure_vars

\* lines 644-651; a record of out is [ts, timestamp, reason]: ts is the kept
\* instant, timestamp its rendering.
Attribute ==
    /\ rpc = "merge"
    /\ Len(owner) = Len(restarts)
    /\ out' = [i \in 1..Len(merged) |->
                  [ts |-> merged[i][1], timestamp |-> _fmt_local(merged[i][1]),
                   reason |-> AttributedReason(merged[i], wd_restart_times)]]
    /\ rpc' = "done"
    /\ UNCHANGED <<watchdog_events, wd_restart_times, restarts, merged, owner, scanned>>
    /\ UNCHANGED llm_vars
    /\ UNCHANGED pure_vars

\* lines 634-641 as a fold: the records after the candidates i.. of cands.
RECURSIVE MergeAll(_, _, _)
MergeAll(cands, i, acc) ==
    IF i > Len(cands) THEN acc
    ELSE LET ts == cands[i][1]
             reason == cands[i][2]
         IN MergeAll(cands, i + 1,
                     IF acc # << >> /\ Near(acc[Len(acc)][1], cands[i - 1][1], ts)
                     THEN (IF IsCrash(reason)
                           THEN [acc EXCEPT ![Len(acc)] = <<@[1], reason>>] ELSE acc)
                     ELSE Append(acc, <<ts, reason>>))

\* lines 632-651: the return value for the candidates cands, in scan order,
\* and the watchdog restart times wts.
analyze_restarts(cands, wts) ==
    LET m == MergeAll(SortDesc(cands), 1, << >>)
    IN [i \in 1..Len(m) |->
           [ts |-> m[i][1], timestamp |-> _fmt_local(m[i][1]),
            reason |-> AttributedReason(m[i], wts)]]

\* ----------------------------------------------------------- specifications
LlmIdle ==
    /\ now_utc = 0
    /\ cooldown_sticky_minutes = DefaultCooldownStickyMinutes
    /\ rate_limit_sticky_minutes = DefaultRateLimitStickyMinutes
    /\ matrix = InitState.matrix
    /\ events = InitState.events
    /\ last_seen = InitState.last_seen
    /\ log = InitState.log
    /\ mark = 0
    /\ line = Plain
    /\ consumed = 0
    /\ pc = "idle"
    /\ lines = << >>
    /\ rows = << >>
    /\ uniq_events = << >>

RestartsIdle ==
    /\ watchdog_events = << >>
    /\ wd_restart_times = << >>
    /\ restarts = << >>
    /\ merged = << >>
    /\ owner = << >>
    /\ out = << >>
    /\ scanned = 0
    /\ rpc = "idle"

PureIdle ==
    /\ worse_in = << >>
    /\ worse_out = << >>

\* parse_llm_status
Init == InitLlm /\ RestartsIdle /\ PureIdle

Next == \E l \in Lines : ProcessLine(l)

Spec == Init /\ [][Next]_vars

\* analyze_restarts
InitR == LlmIdle /\ InitRestarts /\ PureIdle

NextR ==
    \/ ReadWatchdog
    \/ \E l \in RestartSignals : ScanLine(l)
    \/ SortRestarts
    \/ MergeStep
    \/ Attribute

SpecRestarts == InitR /\ [][NextR]_vars

\* ------------------------------------------- parse_llm_status, whole pass
MaxFeed == 3
MaxScript == 34

\* uniq_events[-30:]
EventCap == 30

\* Code-point order of the provider and model names of the catalog and of the
\* input lines.
NameRank(name) ==
    CASE name = "acme" -> 1
      [] name = "beta" -> 2
      [] name = "gpt-x" -> 3
      [] name = "gpt-y" -> 4
      [] name = "m1" -> 5
      [] name = "solo" -> 6
      [] name = "unknown" -> 7
      [] name = "z9" -> 8
      [] name = "zeta" -> 9

sort_key_provider_descending(r) == <<0 - NameRank(r.Provider), NameRank(r.Model)>>

\* key=lambda r: (r["Provider"], r["Model"])
SortKey(r) == <<NameRank(r.Provider), NameRank(r.Model)>>

KeyLess(a, b) == a[1] < b[1] \/ (a[1] = b[1] /\ a[2] < b[2])

\* sorted(...): the rows of matrix in ascending key order.  The ids of the
\* catalog and of the input lines give pairwise different keys, so the order
\* the stable sort would leave between equal keys never shows.
RECURSIVE SortedRows(_)
SortedRows(m) ==
    IF DOMAIN m = {} THEN << >>
    ELSE LET first == CHOOSE a \in DOMAIN m :
                          \A b \in DOMAIN m \ {a} : KeyLess(SortKey(m[a]), SortKey(m[b]))
         IN <<m[first]>> \o SortedRows([x \in DOMAIN m \ {first} |-> m[x]])

dedup_none(es, seen_ev) == es

\* lines 559-565: the first occurrence of each event, in order.
RECURSIVE Dedup(_, _)
Dedup(es, seen_ev) ==
    IF es = << >> THEN << >>
    ELSE IF Head(es) \in seen_ev THEN Dedup(Tail(es), seen_ev)
    ELSE <<Head(es)>> \o Dedup(Tail(es), seen_ev \cup {Head(es)})

keep_first(s, n) == IF Len(s) <= n THEN s ELSE SubSeq(s, 1, n)

\* s[-n:]
LastN(s, n) == IF Len(s) <= n THEN s ELSE SubSeq(s, Len(s) - n + 1, Len(s))

CooldownX == [Plain EXCEPT !.pm = GptX, !.msg.cooldown = TRUE]

PassLines ==
    {CooldownX,
     [Plain EXCEPT !.cdProvider = "acme"],
     [Plain EXCEPT !.cdProvider = "acme", !.ids = {GptY}],
     [Plain EXCEPT !.cdProvider = "beta", !.pm = ZetaZ9],
     [Plain EXCEPT !.unknown = ZetaZ9],
     [Plain EXCEPT !.unknown = BetaM1],
     [Plain EXCEPT !.quoted = Solo, !.notAllowed = TRUE, !.ts = NoTs],
     [Plain EXCEPT !.failed = TRUE, !.noKey = "acme", !.cdProvider = "beta", !.unknown = ZetaZ9,
                   !.segs = <<Seg(GptX, RateMsg(Reset3h)), Seg(Solo, [Quiet EXCEPT !.cooldown = TRUE]),
                              [colon |-> FALSE, mid |-> GptY, msg |-> RateMsg(NoReset)],
                              Seg(BetaM1, [Quiet EXCEPT !.timeout = TRUE])>>],
     [Plain EXCEPT !.lane = "buddy", !.failed = TRUE, !.noKey = "acme",
                   !.segs = <<Seg(GptX, [Quiet EXCEPT !.cooldown = TRUE])>>],
     [Plain EXCEPT !.agentDir = "buddy", !.unknown = ZetaZ9, !.msg = RateMsg(Reset3h)],
     [Plain EXCEPT !.lane = "main", !.agentDir = "main", !.pm = GptY, !.msg.timeout = TRUE],
     [Plain EXCEPT !.noKey = "acme"],
     [Plain EXCEPT !.pm = ZetaZ9],
     [Plain EXCEPT !.msg.ctx = TRUE]}

\* A long feed: n context-limit lines without a model, one per minute, the
\* minute wrapping at period (so events repeat after period lines).
ScriptLine(i, period) == [Plain EXCEPT !.msg.ctx = TRUE, !.ts = 60 * (i % period)]

ScriptFeed(n, period) == [i \in 1..n |-> ScriptLine(i, period)]

ScriptFeeds ==
    {prefix \o ScriptFeed(n, period) :
        prefix \in {<< >>, <<CooldownX>>},
        n \in {MaxScript - 1, MaxScript},
        period \in {5, EventCap, EventCap + 1, EventCap + 2}}

Feeds == SeqsUpTo(PassLines, MaxFeed) \cup ScriptFeeds

PassNow == {1800, 14400}

InitPass ==
    /\ now_utc \in PassNow
    /\ cooldown_sticky_minutes = DefaultCooldownStickyMinutes
    /\ rate_limit_sticky_minutes = DefaultRateLimitStickyMinutes
    /\ matrix = InitState.matrix
    /\ events = InitState.events
    /\ last_seen = InitState.last_seen
    /\ log = InitState.log
    /\ mark = 0
    /\ line = Plain
    /\ consumed = 0
    /\ pc = "loop"
    /\ lines \in Feeds
    /\ rows = << >>
    /\ uniq_events = << >>

\* line 266: one turn of "for line in lines".
ConsumeLine ==
    /\ pc = "loop"
    /\ lines # << >>
    /\ LET st == LineStep(State, Config, Head(lines))
       IN /\ matrix' = st.matrix
          /\ events' = st.events
          /\ last_seen' = st.last_seen
          /\ log' = st.log
    /\ mark' = Len(log)
    /\ line' = Head(lines)
    /\ lines' = Tail(lines)
    /\ consumed' = consumed + 1
    /\ UNCHANGED <<now_utc, cooldown_sticky_minutes, rate_limit_sticky_minutes, pc>>
    /\ UNCHANGED <<rows, uniq_events>>
    /\ UNCHANGED restart_vars
    /\ UNCHANGED pure_vars

\* lines 543-566: the loop is over; build the return value.
Return ==
    /\ pc = "loop"
    /\ lines = << >>
    /\ rows' = SortedRows(matrix)
    /\ uniq_events' = LastN(Dedup(events, {}), EventCap)
    /\ pc' = "done"
    /\ UNCHANGED <<now_utc, cooldown_sticky_minutes, rate_limit_sticky_minutes>>
    /\ UNCHANGED <<matrix, events, last_seen, log, mark, line, consumed, lines>>
    /\ UNCHANGED restart_vars
    /\ UNCHANGED pure_vars

NextPass == ConsumeLine \/ Return

InitP == InitPass /\ RestartsIdle /\ PureIdle

SpecPass == InitP /\ [][NextPass]_vars

\* ------------------------------------------------------------ _worse_status
\* The status strings the rules write into rows.
RowStatuses ==
    {Healthy, ThrottleStatus, RateLimitStatus, QuotaStatus, TimeoutStatus, ContextStatus,
     MissingKeyStatus, InvalidModelStatus}

InitWorse ==
    /\ worse_in \in RowStatuses \X RowStatuses \X RowStatuses
    /\ worse_out = << >>

\* _worse_status on the arguments a, b, c = worse_in: the two-argument results
\* and the two ways of folding three.
CallWorse ==
    /\ worse_out = << >>
    /\ LET a == worse_in[1]
           b == worse_in[2]
           c == worse_in[3]
       IN worse_out' = [aa |-> _worse_status(a, a),
                        ab |-> _worse_status(a, b),
                        ba |-> _worse_status(b, a),
                        left |-> _worse_status(_worse_status(a, b), c),
                        right |-> _worse_status(a, _worse_status(b, c))]
    /\ UNCHANGED worse_in
    /\ UNCHANGED llm_vars
    /\ UNCHANGED restart_vars

NextWorse == CallWorse

InitW == LlmIdle /\ RestartsIdle /\ InitWorse

SpecWorse == InitW /\ [][NextWorse]_vars

\* ------------------------------------- both functions over one log window
\* main calls analyze_restarts and then parse_llm_status on lines of the same
\* log window; the two share no state, so their steps are interleaved freely.
MaxTsFeed == 2

\* Lines whose timestamp is missing or does not parse, and two that have one.
TsLines ==
    {[Plain EXCEPT !.pm = GptX, !.msg.cooldown = TRUE, !.ts = NoTs],
     [Plain EXCEPT !.pm = GptX, !.msg = RateMsg(Reset3h), !.ts = NoTs],
     [Plain EXCEPT !.ids = {BetaM1}, !.msg.timeout = TRUE, !.ts = NoTs],
     [Plain EXCEPT !.pm = ZetaZ9, !.msg.ctx = TRUE, !.ts = NoTs],
     [Plain EXCEPT !.cdProvider = "acme", !.ts = NoTs],
     [Plain EXCEPT !.failed = TRUE, !.ts = NoTs,
                   !.segs = <<Seg(GptY, RateMsg(Reset45m)), Seg(BetaM1, [Quiet EXCEPT !.cooldown = TRUE])>>],
     [Plain EXCEPT !.noKey = "beta", !.ts = NoTs],
     CooldownX,
     [Plain EXCEPT !.ids = {BetaM1}, !.msg = RateMsg(Reset3h), !.ts = 900]}

TsSignals ==
    {[signal |-> "sigusr1", ts |-> NoTs],
     [signal |-> "crash", ts |-> NoTs],
     [signal |-> "sigterm", ts |-> 90]}

InitTs ==
    /\ now_utc \in PassNow
    /\ cooldown_sticky_minutes = DefaultCooldownStickyMinutes
    /\ rate_limit_sticky_minutes = DefaultRateLimitStickyMinutes
    /\ matrix = InitState.matrix
    /\ events = InitState.events
    /\ last_seen = InitState.last_seen
    /\ log = InitState.log
    /\ mark = 0
    /\ line = Plain
    /\ consumed = 0
    /\ pc = "loop"
    /\ lines \in SeqsUpTo(TsLines, MaxTsFeed)
    /\ rows = << >>
    /\ uniq_events = << >>
    /\ watchdog_events = << >>
    /\ wd_restart_times = << >>
    /\ restarts = << >>
    /\ merged = << >>
    /\ owner = << >>
    /\ out = << >>
    /\ scanned = 0
    /\ rpc = "watchdog"
    /\ PureIdle

NextTs ==
    \/ ConsumeLine
    \/ Return
    \/ ReadWatchdog
    \/ \E l \in TsSignals : ScanLine(l)
    \/ SortRestarts
    \/ MergeStep
    \/ Attribute

SpecTs == InitTs /\ [][NextTs]_vars

\* ------------------------------------------ parse_llm_status, rule battery
MaxRuleFeed == 1

\* Every combination of the four anomaly phrasings, with and without a reset
\* duration.
RuleMsgs ==
    {[cooldown |-> c, rl |-> r, reset |-> d, timeout |-> t, ctx |-> x] :
        c \in BOOLEAN, r \in BOOLEAN, t \in BOOLEAN, x \in BOOLEAN,
        d \in {NoReset, Reset45m, Reset3h}}

\* Each message on a line with markers, a line holding two catalog ids, a
\* provider-cooldown line with markers, as the segments of an aggregate, on a
\* line without any id and on one holding only an id outside the catalog.
RuleLines ==
    {[Plain EXCEPT !.pm = GptX, !.msg = m] : m \in RuleMsgs}
    \cup {[Plain EXCEPT !.msg = m] : m \in RuleMsgs}
    \cup {[Plain EXCEPT !.ids = {ZetaZ9}, !.ts = NoTs, !.msg = m] : m \in RuleMsgs}
    \cup {[Plain EXCEPT !.ids = {GptY, BetaM1}, !.msg = m] : m \in RuleMsgs}
    \cup {[Plain EXCEPT !.cdProvider = "acme", !.pm = GptX, !.msg = m] : m \in RuleMsgs}
    \cup {[Plain EXCEPT !.failed = TRUE, !.msg = [Quiet EXCEPT !.timeout = TRUE],
                        !.segs = <<Seg(GptX, m), Seg(BetaM1, [m EXCEPT !.cooldown = FALSE])>>] :
             m \in RuleMsgs}

InitRules ==
    /\ now_utc \in PassNow
    /\ cooldown_sticky_minutes = DefaultCooldownStickyMinutes
    /\ rate_limit_sticky_minutes = DefaultRateLimitStickyMinutes
    /\ matrix = InitState.matrix
    /\ events = InitState.events
    /\ last_seen = InitState.last_seen
    /\ log = InitState.log
    /\ mark = 0
    /\ line = Plain
    /\ consumed = 0
    /\ pc = "loop"
    /\ lines \in SeqsUpTo(RuleLines, MaxRuleFeed)
    /\ rows = << >>
    /\ uniq_events = << >>
    /\ RestartsIdle
    /\ PureIdle

SpecRules == InitRules /\ [][NextPass]_vars

\* ------------------------------------- parse_llm_status, the loop as a fold
MaxOrderFeed == 3

\* line 266: the loop over the lines ls, from the pass state st.
RECURSIVE RunLines(_, _, _)
RunLines(st, cfg, ls) ==
    IF ls = << >> THEN st
    ELSE RunLines(LineStep(st, cfg, Head(ls)), cfg, Tail(ls))

\* Lines whose incidents meet on the same rows: two yellow labels and a red
\* one for acme/gpt-x, red and yellow for beta/m1, aggregates with and without
\* the slash-less id solo, and a line that creates the row of solo.
OrderLines ==
    {CooldownX,
     [Plain EXCEPT !.pm = GptX, !.msg = RateMsg(NoReset), !.ts = 900],
     [Plain EXCEPT !.pm = GptX, !.msg = RateMsg(Reset3h)],
     [Plain EXCEPT !.unknown = BetaM1],
     [Plain EXCEPT !.failed = TRUE, !.ts = 900,
                   !.segs = <<Seg(Solo, [Quiet EXCEPT !.cooldown = TRUE]),
                              Seg(BetaM1, [Quiet EXCEPT !.timeout = TRUE])>>],
     [Plain EXCEPT !.quoted = Solo, !.ts = NoTs],
     [Plain EXCEPT !.failed = TRUE,
                   !.segs = <<Seg(ZetaZ9, [Quiet EXCEPT !.timeout = TRUE]), Seg(GptY, RateMsg(Reset45m))>>],
     [Plain EXCEPT !.noKey = "acme"]}

InitOrder ==
    /\ now_utc \in PassNow
    /\ cooldown_sticky_minutes = DefaultCooldownStickyMinutes
    /\ rate_limit_sticky_minutes = DefaultRateLimitStickyMinutes
    /\ matrix = InitState.matrix
    /\ events = InitState.events
    /\ last_seen = InitState.last_seen
    /\ log = InitState.log
    /\ mark = 0
    /\ line = Plain
    /\ consumed = 0
    /\ pc = "loop"
    /\ lines \in SeqsUpTo(OrderLines, MaxOrderFeed)
    /\ rows = << >>
    /\ uniq_events = << >>
    /\ RestartsIdle
    /\ PureIdle

SpecOrder == InitOrder /\ [][NextPass]_vars

\* =================================================================== claims
Tier(status) == Order(Glyph(status))

MaxOf(a, b) == IF a >= b THEN a ELSE b

\* the row an application found (the healthy default when it created the row)
Pre(e) == IF e.pre = NoRow THEN NewRow(e.mid, Healthy, DefaultDiag) ELSE e.pre

\* the spec's activity test (4.2): timestamp known and now before sticky-until
SpecActive(e) == e.ts # NoTs /\ now_utc < e.sticky_until

\* an application that goes through apply: a non-sticky incident or an active one
Applied(e) == ~e.sticks \/ SpecActive(e)

Entries == {log[i] : i \in DOMAIN log}

\* the applications made by the line processed last
LineEntries == {log[i] : i \in (mark + 1)..Len(log)}

\* ------------------------------------------------------------------------ C1
\* C1: for every model id the severity tier of its row never decreases from
\* one processed line to the next nor across any single application: an
\* application through apply leaves the tier at the worse of the current and
\* the incoming tier, any other application leaves it as it was.
C1_SeverityNeverDecreases ==
    [][ /\ \A mid \in DOMAIN matrix :
              /\ mid \in DOMAIN matrix'
              /\ Tier(matrix'[mid].Status) >= Tier(matrix[mid].Status)
        /\ \A e \in LineEntries' :
              /\ Tier(e.post.Status) >= Tier(Pre(e).Status)
              /\ Applied(e) => Tier(e.post.Status) = MaxOf(Tier(Pre(e).Status), Tier(e.status)) ]_vars

\* a yellow incident was applied to a row that was red, and the row stayed red
C1_Witness ==
    \E e \in Entries :
        /\ Applied(e) /\ Tier(Pre(e).Status) = 3 /\ Tier(e.status) = 2
        /\ Tier(e.post.Status) = 3
        /\ Tier(matrix[e.mid].Status) = 3

\* ------------------------------------------------------------------------ C2
\* C2: a sticky incident raises its row to the worse of the row's and its own
\* severity exactly when its timestamp is known and now_utc < sticky-until
\* (at now_utc = sticky-until it does not); otherwise it leaves the row's
\* severity alone, and a line all of whose incidents are inactive changes the
\* severity of no row.
C2_ActiveIffBeforeStickyUntil ==
    [][ /\ \A e \in LineEntries' :
              e.sticks =>
                  /\ Tier(e.status) > 1
                  /\ SpecActive(e)' => Tier(e.post.Status) = MaxOf(Tier(Pre(e).Status), Tier(e.status))
                  /\ ~SpecActive(e)' => e.post.Status = Pre(e).Status
        /\ (LineEntries' # {} /\ \A e \in LineEntries' : e.sticks /\ ~SpecActive(e)')
              => \A mid \in DOMAIN matrix : matrix'[mid].Status = matrix[mid].Status ]_vars

\* in one pass an incident seen exactly at its sticky-until instant left a
\* green row green, and one seen a second before its sticky-until raised a row
C2_Witness ==
    /\ \E e \in Entries :
          /\ e.sticks /\ e.ts # NoTs /\ now_utc = e.sticky_until
          /\ Tier(e.post.Status) = 1
    /\ \E e \in Entries :
          /\ e.sticks /\ e.ts # NoTs /\ now_utc + 1 = e.sticky_until
          /\ Tier(Pre(e).Status) = 1 /\ Tier(e.post.Status) > 1

\* ------------------------------------------------------------------------ C3
Inactive(e) == e.sticks /\ ~SpecActive(e)

\* C3 as stated: an inactive incident overwrites the diagnosis with the
\* breadcrumb only if the row carries the generic diagnosis; a row whose
\* diagnosis is not generic (an earlier breadcrumb included) keeps severity and
\* diagnosis.
C3_Original ==
    \A e \in Entries :
        Inactive(e) =>
            /\ e.post.Status = Pre(e).Status
            /\ IsGeneric(Pre(e).Diagnosis)
                  => e.post.Diagnosis = Breadcrumb(LocalTime(e.ts), e.kind)
            /\ ~IsGeneric(Pre(e).Diagnosis) => e.post.Diagnosis = Pre(e).Diagnosis

\* C3 (amended): an inactive incident leaves the severity unchanged and
\* overwrites the diagnosis with its breadcrumb exactly when the row is green,
\* whether the row carries the generic diagnosis or an earlier breadcrumb; a
\* row that is not green keeps its diagnosis.
C3_StaleOverwritesGreenRow ==
    \A e \in Entries :
        Inactive(e) =>
            /\ e.post.Status = Pre(e).Status
            /\ e.post.Diagnosis = IF Tier(Pre(e).Status) = 1
                                  THEN Breadcrumb(LocalTime(e.ts), e.kind)
                                  ELSE Pre(e).Diagnosis

\* a stale incident found the breadcrumb of an earlier stale incident and
\* replaced it with its own
C3_Witness ==
    \E e \in Entries :
        /\ Inactive(e)
        /\ IsBreadcrumb(Pre(e).Diagnosis)
        /\ IsBreadcrumb(e.post.Diagnosis)
        /\ e.post.Diagnosis # Pre(e).Diagnosis

\* ------------------------------------------------------------------------ C4
\* C4 as stated: an active incident on a row whose diagnosis is not generic and
\* whose severity is at least the incoming one leaves the diagnosis unchanged;
\* the incoming diagnosis replaces it only when the current one is generic or
\* the incoming severity is worse.
C4_Original ==
    \A e \in Entries :
        (e.sticks /\ SpecActive(e)) =>
            e.post.Diagnosis =
                IF IsGeneric(Pre(e).Diagnosis) \/ Tier(e.status) > Tier(Pre(e).Status)
                THEN e.diagnosis ELSE Pre(e).Diagnosis

\* C4 (amended): an active incident replaces the diagnosis when the current
\* diagnosis is generic or the row's resulting severity is not green; as an
\* active incident is never green, its diagnosis always replaces the row's,
\* also on a row with a non-generic diagnosis and an equal or worse severity.
C4_ActiveIncidentTakesDiagnosis ==
    \A e \in Entries :
        (e.sticks /\ SpecActive(e)) =>
            /\ Tier(e.post.Status) > 1
            /\ e.post.Diagnosis =
                  IF IsGeneric(Pre(e).Diagnosis) \/ Tier(e.post.Status) > 1
                  THEN e.diagnosis ELSE Pre(e).Diagnosis
            /\ e.post.Diagnosis = e.diagnosis

\* an active incident that was not worse than its row replaced a different,
\* non-generic diagnosis
C4_Witness ==
    \E e \in Entries :
        /\ e.sticks /\ SpecActive(e)
        /\ ~IsGeneric(Pre(e).Diagnosis)
        /\ Tier(Pre(e).Status) >= Tier(e.status)
        /\ Pre(e).Diagnosis # e.diagnosis
        /\ e.post.Diagnosis = e.diagnosis

\* ------------------------------------------------------------------------ C5
AppliedTo(mid) == {i \in DOMAIN log : log[i].mid = mid /\ Applied(log[i])}

LastOf(S) == CHOOSE i \in S : \A j \in S : j <= i

\* C5: a row that is not green carries the diagnosis of the last active or
\* non-sticky incident applied to its model, in line order, and the worst of
\* the severities of all of them.
C5_LastDiagnosisWorstSeverity ==
    \A mid \in DOMAIN matrix :
        Tier(matrix[mid].Status) > 1 =>
            /\ AppliedTo(mid) # {}
            /\ matrix[mid].Diagnosis = log[LastOf(AppliedTo(mid))].diagnosis
            /\ \E i \in AppliedTo(mid) : Tier(log[i].status) = Tier(matrix[mid].Status)
            /\ \A i \in AppliedTo(mid) : Tier(log[i].status) <= Tier(matrix[mid].Status)

\* a provider-wide cooldown and a model-specific incident of the same
\* timestamp, in either order, after a worse incident: the row shows the later
\* one's diagnosis and the worst severity
C5_Witness ==
    \E i, j \in AppliedTo(GptX) :
        /\ i # j
        /\ log[i].kind = "provider cooldown" /\ log[j].kind \in {"cooldown", "429/rate_limit"}
        /\ log[i].ts = log[j].ts /\ log[i].ts # NoTs
        /\ LastOf(AppliedTo(GptX)) \in {i, j}
        /\ matrix[GptX].Diagnosis = log[LastOf(AppliedTo(GptX))].diagnosis
        /\ Tier(matrix[GptX].Status) = 3
        /\ Tier(log[LastOf(AppliedTo(GptX))].status) = 2

\* ------------------------------------------------------------------------ C6
\* the duration a reset text stands for, in seconds (0: none, or zero-valued)
ResetSeconds(raw) ==
    IF raw = NoReset THEN 0 ELSE 3600 * Unit(raw[1]) + 60 * Unit(raw[2]) + Unit(raw[3])

\* the rate-limit incidents of the line processed last (a line attributed to
\* models, not an aggregate) that carry a timestamp
RateEntries == {e \in LineEntries : ~line.failed /\ e.kind = "429/rate_limit" /\ e.ts # NoTs}

RatePolicyHolds(e) ==
    LET d == ResetSeconds(line.msg.reset)
    IN  /\ (0 < d /\ d <= 3600) => (Glyph(e.status) = "yellow" /\ e.sticky_until = e.ts + d)
        /\ d > 3600 => (Glyph(e.status) = "red" /\ e.sticky_until = e.ts + d)
        /\ d = 0 => (/\ Glyph(e.status) = "yellow"
                     /\ e.sticky_until = e.ts + 60 * rate_limit_sticky_minutes)

RateEffectHolds(e) ==
    LET d == ResetSeconds(line.msg.reset)
    IN  now_utc < e.sticky_until =>
            /\ d > 0 => e.post.Diagnosis[Len(e.post.Diagnosis)] = line.msg.reset
            /\ e.events = 1
            /\ e.last_event[2] = "model" /\ e.last_event[3] = e.mid

\* C6 as stated: reset d <= 1 h yellow until T+d, d > 1 h red until T+d, no
\* reset yellow until T + rate_limit_sticky_minutes; while active the row takes
\* that severity, the diagnosis carries the recovery duration and one event is
\* appended for the model.
C6_Original ==
    \A e \in RateEntries :
        /\ RatePolicyHolds(e)
        /\ RateEffectHolds(e)
        /\ now_utc < e.sticky_until => Glyph(e.post.Status) = Glyph(e.status)

\* C6 (amended): the same policy; while active the row's severity becomes the
\* worse of its current severity and the incident's (a red row stays red under
\* a yellow rate limit), the diagnosis carries the recovery duration and one
\* event is appended for the model.
C6_RateLimitPolicy ==
    \A e \in RateEntries :
        /\ RatePolicyHolds(e)
        /\ RateEffectHolds(e)
        /\ now_utc < e.sticky_until
              => Tier(e.post.Status) = MaxOf(Tier(Pre(e).Status), Tier(e.status))

\* "reset after 60m" (exactly one hour) made a green row yellow while active
C6_Witness ==
    \E e \in RateEntries :
        /\ ResetSeconds(line.msg.reset) = 3600
        /\ now_utc < e.sticky_until
        /\ Tier(Pre(e).Status) = 1
        /\ e.post.Status = RateLimitStatus
        /\ e.post.Diagnosis[Len(e.post.Diagnosis)] = Reset60m

\* ------------------------------------------------------------------------ C7
\* the line is handled by the No-API-key rule: main agent, not an aggregate
NoKeyRule(l) == l.lane \in {"", "main"} /\ l.agentDir \in {"", "main"} /\ ~l.failed /\ l.noKey # ""

\* C7: a No-API-key line for provider X, whatever its age and the rows' state,
\* makes every configured model of X red with the missing-credential
\* diagnosis, leaves the rows of every other provider unchanged and appends
\* exactly one event, the provider-level one.
C7_NoApiKeyFanOut ==
    [][ NoKeyRule(line') =>
          /\ \A i \in 1..Len(models) :
                models[i].provider = line'.noKey =>
                    /\ Tier(matrix'[models[i].model_id].Status) = 3
                    /\ matrix'[models[i].model_id].Diagnosis = MissingKeyDiag
          /\ \A mid \in DOMAIN matrix :
                ProviderOf(mid) # line'.noKey => matrix'[mid] = matrix[mid]
          /\ DOMAIN matrix' = DOMAIN matrix
          /\ events' = Append(events, <<LocalTime(line'.ts), "provider", line'.noKey, "No API key">>) ]_vars

\* a No-API-key line for acme older than the rate-limit sticky window: both
\* acme rows are red with the missing-credential diagnosis, one of them was
\* red under another label before, and the non-green row of beta is as it was
C7_Witness ==
    /\ NoKeyRule(line) /\ line.noKey = "acme" /\ line.ts # NoTs
    /\ now_utc - line.ts >= Minutes(rate_limit_sticky_minutes)
    /\ \A mid \in {GptX, GptY} : Tier(matrix[mid].Status) = 3 /\ matrix[mid].Diagnosis = MissingKeyDiag
    /\ \E e \in LineEntries : e.mid = GptX /\ e.pre.Status = QuotaStatus
    /\ Tier(matrix[BetaM1].Status) > 1

\* ------------------------------------------------------------------------ C8
Cand == DOMAIN owner

Apart(i, j) == Abs(restarts[i][1] - restarts[j][1])

\* C8 as stated: any two candidates at most 90 s apart end up in the same
\* output record, chains included.
C8_Original ==
    rpc = "done" => \A i, j \in Cand : Apart(i, j) <= 90 => owner[i] = owner[j]

\* C8 (amended): a candidate at most 90 s (90 included) older than the kept,
\* newest candidate of a record is collapsed into that record, so two
\* candidates at most 90 s apart collapse whenever the newer one is a kept
\* candidate; T, T+30, T+200 yields two records.
C8_WithinWindowOfKeptCollapses ==
    rpc = "done" =>
        /\ Len(out) = Len(merged)
        /\ \A i \in Cand : \A k \in DOMAIN out :
              (out[k].ts >= restarts[i][1] /\ out[k].ts - restarts[i][1] <= 90) => owner[i] = k

\* two candidates exactly 90 s apart were collapsed into one record while a
\* third one stayed separate
C8_Witness ==
    /\ rpc = "done"
    /\ Len(restarts) = 3 /\ Len(out) = 2
    /\ \E i, j \in Cand : i # j /\ Apart(i, j) = 90 /\ owner[i] = owner[j]

\* ------------------------------------------------------------------------ C9
\* C9: two candidates more than 90 s apart are never in the same record,
\* whatever candidates lie between them.
C9_FarApartNeverCollapse ==
    \A i, j \in Cand : Apart(i, j) > 90 => owner[i] # owner[j]

\* a chain: each candidate within 90 s of the next, the ends more than 90 s
\* apart and in different records
C9_Witness ==
    /\ rpc = "done"
    /\ \E i, j, k \in Cand :
          /\ i < j /\ j < k
          /\ Apart(i, j) <= 90 /\ Apart(j, k) <= 90 /\ Apart(i, k) > 90
          /\ owner[i] # owner[k]

\* ----------------------------------------------------------------------- C10
NearWatchdog(ts) ==
    \E w \in 1..Len(watchdog_events) :
        /\ watchdog_events[w].type = "gateway_restart"
        /\ watchdog_events[w].ts # NoTs
        /\ Abs(watchdog_events[w].ts - ts) <= 120

\* C10: an output record within 120 s, before or after, of a gateway_restart
\* audit record has the watchdog reason whatever its merged reason was; any
\* other record keeps its merged reason.
C10_WatchdogAttribution ==
    rpc = "done" =>
        \A k \in DOMAIN out :
            out[k].reason = IF NearWatchdog(out[k].ts) THEN WatchdogReason ELSE merged[k][2]

\* a record the merge had re-labelled as crash, exactly 120 s from the audit
\* record, carries the watchdog reason
C10_Witness ==
    /\ rpc = "done"
    /\ \E k \in DOMAIN out :
          /\ out[k].reason = WatchdogReason
          /\ IsCrash(merged[k][2])
          /\ \E i \in Cand : owner[i] = k /\ restarts[i][1] = out[k].ts /\ ~IsCrash(restarts[i][2])
          /\ \E w \in 1..Len(watchdog_events) : Abs(watchdog_events[w].ts - out[k].ts) = 120

\* ----------------------------------------------------------------------- C11
CrashReason == ReasonOf("crash")

Members(k) == {i \in Cand : owner[i] = k}

Newest(k) == CHOOSE i \in Members(k) : \A j \in Members(k) : i <= j

\* C11: before the watchdog pass a merged record keeps the timestamp of the
\* newest candidate of its cluster and has the crash reason when any candidate
\* of the cluster is a crash (a merged-away crash overwrites the kept reason),
\* otherwise the reason of its newest candidate.
C11_CrashWinsElseNewest ==
    \A k \in DOMAIN merged :
        /\ Members(k) # {}
        /\ merged[k][1] = restarts[Newest(k)][1]
        /\ merged[k][2] = IF \E i \in Members(k) : restarts[i][2] = CrashReason
                          THEN CrashReason ELSE restarts[Newest(k)][2]

\* a crash candidate was merged away into a newer non-crash candidate and the
\* record took the crash reason
C11_Witness ==
    \E k \in DOMAIN merged :
        /\ restarts[Newest(k)][2] # CrashReason
        /\ \E i \in Members(k) : i # Newest(k) /\ restarts[i][2] = CrashReason
        /\ merged[k][2] = CrashReason

\* ----------------------------------------------------------------------- C12
\* positions of events that hold the first occurrence of their string
FirstOccurrences == {i \in DOMAIN events : \A j \in 1..(i - 1) : events[j] # events[i]}

\* the k-th first occurrence, in order of appending
NthFirst(k) == CHOOSE i \in FirstOccurrences : Cardinality({j \in FirstOccurrences : j <= i}) = k

\* C12: the returned timeline holds no string twice, has at most 30 entries,
\* and is the last 30 (or all, when there are fewer) first occurrences of the
\* appended events, in the order they were appended.
C12_TimelineDedupThenLast30 ==
    pc = "done" =>
        LET n == Cardinality(FirstOccurrences)
            k == Len(uniq_events)
        IN /\ \A p, q \in DOMAIN uniq_events : p # q => uniq_events[p] # uniq_events[q]
           /\ k <= 30
           /\ k = IF n <= 30 THEN n ELSE 30
           /\ \A p \in DOMAIN uniq_events : uniq_events[p] = events[NthFirst(n - k + p)]

\* more than 30 distinct events and some repeats were appended; 30 are returned
C12_Witness ==
    /\ pc = "done"
    /\ Cardinality(FirstOccurrences) > 30
    /\ Len(events) > Cardinality(FirstOccurrences)
    /\ Len(uniq_events) = 30
    /\ uniq_events[30] = events[Len(events) - 3]

\* ----------------------------------------------------------------------- C13
\* C13 as stated: on the status values of the rows _worse_status is
\* idempotent, commutative and associative.
C13_Original ==
    worse_out # << >> =>
        /\ worse_out.aa = worse_in[1]
        /\ worse_out.ab = worse_out.ba
        /\ worse_out.left = worse_out.right

\* C13: on the status values of the rows _worse_status is idempotent and
\* associative; it commutes in the severity tier of its result, and in the
\* result itself when the two tiers differ; on equal tiers it returns its
\* first argument, whatever the labels.
C13_CommutesUpToTier ==
    worse_out # << >> =>
        /\ worse_out.aa = worse_in[1]
        /\ worse_out.left = worse_out.right
        /\ Tier(worse_out.ab) = Tier(worse_out.ba)
        /\ Tier(worse_in[1]) # Tier(worse_in[2]) => worse_out.ab = worse_out.ba
        /\ Tier(worse_in[1]) = Tier(worse_in[2]) =>
               worse_out.ab = worse_in[1] /\ worse_out.ba = worse_in[2]

\* two statuses of one tier under different labels were compared both ways,
\* and each call returned its first argument
C13_Witness ==
    /\ worse_out # << >>
    /\ Tier(worse_in[1]) = Tier(worse_in[2])
    /\ worse_in[1] # worse_in[2]
    /\ worse_out.ab = worse_in[1]
    /\ worse_out.ba = worse_in[2]

\* ----------------------------------------------------------------------- C14
\* the incident of a log entry, without the rows it found and left
IncidentOf(e) == <<e.mid, e.kind, e.ts, e.sticky_until, e.status, e.diagnosis>>

\* C14: processing a line a second time right after itself changes no row
\* (severity and diagnosis), no last-seen entry and no first occurrence in the
\* event list, so the de-duplicated timeline is the one after the first time.
C14_SameLineTwiceIsOnce ==
    [][ (consumed >= 1 /\ consumed' = consumed + 1 /\ line' = line)
            => /\ matrix' = matrix
               /\ last_seen' = last_seen
               /\ Dedup(events', {}) = Dedup(events, {}) ]_vars

\* the same incidents were applied by two consecutive lines, the second time
\* to a row that was raised the first time, and an event was appended twice
C14_Witness ==
    /\ consumed = 2
    /\ mark >= 1
    /\ Len(log) = 2 * mark
    /\ \A i \in 1..mark : IncidentOf(log[i]) = IncidentOf(log[mark + i])
    /\ \E i \in 1..mark :
           /\ Applied(log[i])
           /\ Tier(Pre(log[i]).Status) < Tier(log[i].post.Status)
           /\ log[mark + i].pre = log[mark + i].post
           /\ log[mark + i].events = 1
    /\ \E i, j \in DOMAIN events : i < j /\ events[i] = events[j]
    /\ \E mid \in DOMAIN last_seen : TRUE

\* ----------------------------------------------------------------------- C15
\* the applications the line consumed by this step made through apply to mid
AppliedNow(mid) ==
    {i \in (mark' + 1)..Len(log') : log'[i].mid = mid /\ Applied(log'[i])}

\* a row that appears in this step is the healthy default of its id, changed
\* only by what the line applied to it
FreshRow(mid) ==
    /\ matrix'[mid].Provider = ProviderOf(mid)
    /\ matrix'[mid].Model = ModelOf(mid)
    /\ IF AppliedNow(mid) = {}
       THEN /\ matrix'[mid].Status = Healthy
            /\ matrix'[mid].Diagnosis = DefaultDiag \/ IsBreadcrumb(matrix'[mid].Diagnosis)
       ELSE /\ \E i \in AppliedNow(mid) : matrix'[mid].Status = log'[i].status
            /\ \A i \in AppliedNow(mid) : Tier(matrix'[mid].Status) >= Tier(log'[i].status)

\* the line is handled by the attribution rule for the id its provider= and
\* model= markers give
AttributedLine(l) ==
    /\ ~OtherAgent(l) /\ ~l.failed /\ l.noKey = ""
    /\ l.unknown = NoRef /\ ~l.notAllowed
    /\ l.pm # NoRef

RowBefore(a, b) ==
    \/ NameRank(a.Provider) < NameRank(b.Provider)
    \/ a.Provider = b.Provider /\ NameRank(a.Model) < NameRank(b.Model)

\* C15: the matrix always holds a row for every configured model and for every
\* id an incident was applied to or a line was attributed to; rows are never
\* removed; a row that appears starts from the healthy default; the returned
\* rows are the rows of the matrix, one per id, ascending by (provider, model).
C15_MatrixSupersetSortedOutput ==
    /\ [](/\ ModelIds \subseteq DOMAIN matrix
          /\ \A e \in Entries : e.mid \in DOMAIN matrix
          /\ consumed = 0 => \A mid \in ModelIds : matrix[mid] = NewRow(mid, Healthy, DefaultDiag)
          /\ pc = "done" =>
                /\ Len(rows) = Cardinality(DOMAIN matrix)
                /\ \A mid \in DOMAIN matrix : \E p \in DOMAIN rows : rows[p] = matrix[mid]
                /\ \A p, q \in DOMAIN rows : p < q => RowBefore(rows[p], rows[q]))
    /\ [][ /\ DOMAIN matrix \subseteq DOMAIN matrix'
           /\ \A mid \in DOMAIN matrix' \ DOMAIN matrix : FreshRow(mid)
           /\ (consumed' = consumed + 1 /\ AttributedLine(line')) => line'.pm \in DOMAIN matrix' ]_vars

\* two unconfigured ids got rows, zeta/z9 before solo, and the returned rows
\* list unknown/solo before zeta/z9
C15_Witness ==
    /\ pc = "done"
    /\ \E i, j \in DOMAIN log :
           /\ i < j
           /\ log[i].mid = ZetaZ9 /\ log[i].pre = NoRow
           /\ log[j].mid = Solo /\ log[j].pre = NoRow
    /\ \E p, q \in DOMAIN rows :
           /\ p < q
           /\ rows[p] = matrix[Solo]
           /\ rows[q] = matrix[ZetaZ9]
    /\ Len(rows) = Len(models) + 2

\* ----------------------------------------------------------------------- C16
\* C16: a line whose lane marker or agent-directory segment names an agent
\* other than main leaves every row, the event list and the last-seen map as
\* they were, whatever else the line holds.
C16_OtherAgentLineDiscarded ==
    [][ (/\ consumed' = consumed + 1
         /\ \/ line'.lane \notin {"", "main"}
            \/ line'.agentDir \notin {"", "main"})
            => /\ matrix' = matrix
               /\ events' = events
               /\ last_seen' = last_seen
               /\ log' = log ]_vars

\* a line of another agent's directory with an unknown-model and a rate-limit
\* text was consumed after an effective line and left no trace
C16_Witness ==
    /\ consumed = 2
    /\ line.agentDir = "buddy" /\ line.unknown = ZetaZ9 /\ line.msg.rl
    /\ mark = Len(log)
    /\ Len(log) > 0
    /\ ZetaZ9 \notin DOMAIN matrix
    /\ Len(events) = 1

\* ----------------------------------------------------------------------- C17
\* the sub-rule a segment message falls under ("" when none)
KindOf(msg) ==
    IF msg.cooldown THEN "cooldown"
    ELSE IF msg.rl THEN "429/rate_limit"
    ELSE IF msg.timeout THEN "timeout"
    ELSE IF msg.ctx THEN "token/context limit"
    ELSE ""

\* the segments of the line consumed by this step that the aggregate rule
\* uses: 'id: message' with a slash in id or a row for id before the line
UsedSegments ==
    LET Used(seg) == /\ seg.colon
                     /\ HasSlash(seg.mid) \/ seg.mid \in DOMAIN matrix
                     /\ KindOf(seg.msg) # ""
    IN SelectSeq(line'.segs, Used)

\* C17: an 'all models failed' line of the main agent makes one incident
\* application per used segment, in order, to the segment's own id and of the
\* segment's own kind; every other row stays as it was, a dropped segment
\* creates no row, and the events appended are the segments' model events (no
\* provider event, no unknown-model event).
C17_AggregateRuleOnly ==
    [][ (/\ consumed' = consumed + 1
         /\ line'.failed
         /\ line'.lane \in {"", "main"} /\ line'.agentDir \in {"", "main"})
            => /\ Len(log') - Len(log) = Len(UsedSegments)
               /\ \A i \in DOMAIN UsedSegments :
                      /\ log'[Len(log) + i].mid = UsedSegments[i].mid
                      /\ log'[Len(log) + i].kind = KindOf(UsedSegments[i].msg)
                      /\ log'[Len(log) + i].sticks
               /\ \A mid \in DOMAIN matrix' :
                      (\A i \in DOMAIN UsedSegments : UsedSegments[i].mid # mid)
                          => mid \in DOMAIN matrix /\ matrix'[mid] = matrix[mid]
               /\ Len(events') - Len(events) = Len(UsedSegments)
               /\ \A i \in DOMAIN UsedSegments :
                      /\ events'[Len(events) + i][2] = "model"
                      /\ events'[Len(events) + i][3] = UsedSegments[i].mid
                      /\ events'[Len(events) + i][4] = KindOf(UsedSegments[i].msg) ]_vars

\* an aggregate line that also holds No-API-key, provider-cooldown and
\* unknown-model text was consumed: its two slash-qualified segments were
\* applied, the segment of the unseen id solo and the colon-less one were
\* dropped, and no other rule acted
C17_Witness ==
    /\ consumed = 1
    /\ line.failed /\ line.noKey = "acme" /\ line.cdProvider = "beta" /\ line.unknown = ZetaZ9
    /\ Len(log) = 2
    /\ log[1].mid = GptX /\ log[2].mid = BetaM1
    /\ Solo \notin DOMAIN matrix
    /\ ZetaZ9 \notin DOMAIN matrix
    /\ matrix[GptY] = NewRow(GptY, Healthy, DefaultDiag)
    /\ Len(events) = 2

\* ----------------------------------------------------------------------- C18
\* the id X of an 'Unknown model: X' / 'Model "X" is not allowed' text
UnknownId(l) == IF l.unknown # NoRef THEN l.unknown ELSE l.quoted

\* the line reaches the unknown-model rule: it is a main-agent line, not an
\* aggregate, without No-API-key and provider-cooldown text
UnknownModelLine(l) ==
    /\ l.lane \in {"", "main"} /\ l.agentDir \in {"", "main"}
    /\ ~l.failed /\ l.noKey = "" /\ l.cdProvider = ""
    /\ l.unknown # NoRef \/ (l.notAllowed /\ l.quoted # NoRef)

\* C18: a line handled by the unknown-model rule leaves the row of X red
\* whatever the line's timestamp and now_utc: a missing row is created red with
\* the unknown-model diagnosis, an existing row is raised to red (a row already
\* red keeps its status) and takes that diagnosis; no other row and no
\* last-seen entry changes, and exactly one event is appended.
C18_UnknownModelRedNonSticky ==
    [][ (consumed' = consumed + 1 /\ UnknownModelLine(line'))
            => LET X == UnknownId(line')
               IN /\ X \in DOMAIN matrix'
                  /\ Tier(matrix'[X].Status) = 3
                  /\ matrix'[X].Diagnosis = InvalidModelDiag
                  /\ X \notin DOMAIN matrix =>
                         matrix'[X] = NewRow(X, InvalidModelStatus, InvalidModelDiag)
                  /\ X \in DOMAIN matrix =>
                         matrix'[X].Status = IF Tier(matrix[X].Status) = 3
                                             THEN matrix[X].Status ELSE InvalidModelStatus
                  /\ \A mid \in DOMAIN matrix' \ {X} :
                         mid \in DOMAIN matrix /\ matrix'[mid] = matrix[mid]
                  /\ last_seen' = last_seen
                  /\ events' = Append(events, <<LocalTime(line'.ts), "model", X, "Unknown/Not allowed">>) ]_vars

\* an unknown-model line found the row of zeta/z9 yellow and raised it to red,
\* and a not-allowed line without a timestamp created the row of solo red
C18_Witness ==
    /\ \E i \in DOMAIN log :
           /\ log[i].kind = "unknown_model" /\ log[i].mid = ZetaZ9
           /\ log[i].pre # NoRow /\ Tier(log[i].pre.Status) = 2
           /\ log[i].post.Status = InvalidModelStatus
    /\ \E j \in DOMAIN log :
           /\ log[j].kind = "unknown_model" /\ log[j].mid = Solo
           /\ log[j].ts = NoTs /\ log[j].pre = NoRow
           /\ log[j].post = NewRow(Solo, InvalidModelStatus, InvalidModelDiag)
    /\ matrix[ZetaZ9].Status = InvalidModelStatus
    /\ matrix[Solo].Status = InvalidModelStatus

\* ----------------------------------------------------------------------- C19
\* a main-agent line with 'Provider X is in cooldown' text that is neither an
\* aggregate nor a No-API-key nor an unknown-model line
ProviderCooldownLine(l) ==
    /\ l.lane \in {"", "main"} /\ l.agentDir \in {"", "main"}
    /\ ~l.failed /\ l.noKey = "" /\ l.unknown = NoRef /\ ~l.notAllowed
    /\ l.cdProvider # ""

\* the ids the line resolves to: its provider=/model= markers, else its quoted
\* model, else the configured ids its text holds
ResolvedIds(l) ==
    IF l.pm # NoRef THEN {l.pm}
    ELSE IF l.quoted # NoRef THEN {l.quoted}
    ELSE l.ids \cap ModelIds

\* the configured ids under provider p, in catalog order
RECURSIVE Under(_, _)
Under(p, ms) ==
    IF ms = << >> THEN << >>
    ELSE (IF Head(ms).provider = p THEN <<Head(ms).model_id>> ELSE << >>) \o Under(p, Tail(ms))

CooldownUntil(ts) == IF ts = NoTs THEN NoTs ELSE ts + 60 * cooldown_sticky_minutes

\* C19: a provider-cooldown line that resolves to no model id applies one
\* cooldown incident, sticky until timestamp + cooldown_sticky_minutes (240 by
\* default), to each configured model of provider X and to nothing else, and
\* appends exactly one provider event; one that resolves to model ids applies
\* the cooldown to those ids only and appends no provider event.
C19_ProviderCooldownFanOut ==
    [][ (consumed' = consumed + 1 /\ ProviderCooldownLine(line'))
            => LET ids == ResolvedIds(line')
                   under == Under(line'.cdProvider, models)
                   new == [i \in 1..(Len(log') - Len(log)) |-> log'[Len(log) + i]]
               IN /\ DefaultCooldownStickyMinutes = 240
                  /\ \A i \in DOMAIN new :
                         /\ new[i].sticks
                         /\ new[i].status = ThrottleStatus
                         /\ new[i].sticky_until = CooldownUntil(line'.ts)
                  /\ IF ids = {}
                     THEN /\ Len(new) = Len(under)
                          /\ \A i \in DOMAIN new :
                                 new[i].mid = under[i] /\ new[i].kind = "provider cooldown"
                          /\ DOMAIN matrix' = DOMAIN matrix
                          /\ \A mid \in DOMAIN matrix :
                                 (\A i \in DOMAIN under : under[i] # mid) => matrix'[mid] = matrix[mid]
                          /\ events' = Append(events, <<LocalTime(line'.ts), "provider",
                                                        line'.cdProvider, "cooldown">>)
                     ELSE /\ {new[i].mid : i \in DOMAIN new} = ids
                          /\ Len(new) = Cardinality(ids)
                          /\ \A i \in DOMAIN new : new[i].kind = "cooldown"
                          /\ \A mid \in DOMAIN matrix' \ ids :
                                 mid \in DOMAIN matrix /\ matrix'[mid] = matrix[mid]
                          /\ Len(events') = Len(events) + Cardinality(ids)
                          /\ \A k \in (Len(events) + 1)..Len(events') : events'[k][2] = "model" ]_vars

\* a provider-cooldown line for acme without a model id raised both acme
\* models and left beta/m1 alone; a later one naming acme/gpt-y applied the
\* cooldown to acme/gpt-y only
C19_Witness ==
    /\ consumed = 2
    /\ now_utc < 14400
    /\ Len(log) = 3 /\ mark = 2
    /\ log[1].kind = "provider cooldown" /\ log[1].mid = GptX /\ log[1].sticky_until = 14400
    /\ log[2].kind = "provider cooldown" /\ log[2].mid = GptY
    /\ log[3].kind = "cooldown" /\ log[3].mid = GptY
    /\ line.cdProvider = "acme" /\ line.ids = {GptY}
    /\ matrix[GptX].Status = ThrottleStatus
    /\ matrix[GptX].Diagnosis = ProviderCooldownDiag
    /\ matrix[GptY].Diagnosis = CooldownDiag
    /\ matrix[BetaM1] = NewRow(BetaM1, Healthy, DefaultDiag)
    /\ Len(events) = 2

\* ----------------------------------------------------------------------- C20
\* the applications made to mid so far
EntriesOf(mid) == {i \in DOMAIN log : log[i].mid = mid}

\* C20: a model whose only incident is a cooldown timestamped T with
\* now_utc >= T + cooldown_sticky_minutes has a green row whose diagnosis is
\* the breadcrumb naming the local time of T and the incident's kind.
C20_ExpiredCooldownLeavesBreadcrumb ==
    \A mid \in DOMAIN matrix :
        \A i \in EntriesOf(mid) :
            (/\ EntriesOf(mid) = {i}
             /\ log[i].kind \in {"cooldown", "provider cooldown"}
             /\ log[i].ts # NoTs
             /\ now_utc >= log[i].ts + 60 * cooldown_sticky_minutes)
                => /\ matrix[mid].Status = Healthy
                   /\ matrix[mid].Diagnosis =
                          <<"last anomaly", _fmt_local(log[i].ts), log[i].kind,
                            "outside window / possibly recovered">>

\* a cooldown of acme/gpt-x timestamped exactly 240 minutes before now_utc is
\* its only incident; the row is green with the 08:00 breadcrumb
C20_Witness ==
    /\ now_utc = 14400
    /\ cooldown_sticky_minutes = 240
    /\ \E i \in DOMAIN log :
           /\ EntriesOf(GptX) = {i}
           /\ log[i].kind = "cooldown"
           /\ log[i].ts = 0
    /\ matrix[GptX].Status = Healthy
    /\ matrix[GptX].Diagnosis = <<"last anomaly", 480, "cooldown", "outside window / possibly recovered">>

\* ----------------------------------------------------------------------- C21
\* the applications made by the line this step consumes
NewEntries == {log'[i] : i \in (Len(log) + 1)..Len(log')}

\* C21: a line without a usable timestamp is consumed like any other and the
\* pass goes on with the next line; none of its sticky incidents (cooldown,
\* rate limit, timeout, context limit, provider cooldown) is applied as active
\* or changes a status, a row changes status only through a non-sticky rule
\* of the line, the last-seen map is left as it was; and a restart signal
\* line without a usable timestamp adds no restart candidate.
C21_NoTimestampSkipsStickyPaths ==
    [][ /\ (consumed' = consumed + 1 /\ line'.ts = NoTs)
            => /\ pc' = "loop" /\ lines' = Tail(lines)
               /\ last_seen' = last_seen
               /\ \A e \in NewEntries :
                      e.sticks => /\ e.kind \in {"cooldown", "429/rate_limit", "timeout",
                                                 "token/context limit", "provider cooldown"}
                                  /\ e.post.Status = Pre(e).Status
               /\ \A mid \in DOMAIN matrix' :
                      (\A e \in NewEntries : e.mid = mid => e.sticks)
                          => matrix'[mid].Status =
                                 IF mid \in DOMAIN matrix THEN matrix[mid].Status ELSE Healthy
        /\ \A l \in TsSignals : (l.ts = NoTs /\ ScanLine(l)) => restarts' = restarts ]_vars

\* with now_utc inside every sticky window that a timestamp at 0 would open,
\* two lines without timestamp (a cooldown, a 3 h rate limit) made sticky
\* applications and left the rows green and last_seen empty; two restart
\* signal lines were scanned and gave no candidate
C21_Witness ==
    /\ now_utc = 1800
    /\ consumed = 2
    /\ line.ts = NoTs
    /\ Len(log) >= 2
    /\ \A i \in DOMAIN log : log[i].sticks /\ log[i].ts = NoTs
    /\ \E i \in DOMAIN log : log[i].status = QuotaStatus
    /\ \A mid \in DOMAIN matrix : matrix[mid].Status = Healthy
    /\ DOMAIN last_seen = {}
    /\ scanned = 2
    /\ restarts = << >>

\* ----------------------------------------------------------------------- C22
\* C22: the returned records are strictly descending in time, any two of them
\* more than 90 s apart, one per merged record, and each carries the latest
\* timestamp among the candidates of its cluster.
C22_TimelineNewestFirstSpaced ==
    rpc = "done" =>
        /\ Len(out) = Len(merged)
        /\ \A k, l \in DOMAIN out :
               k < l => out[k].ts > out[l].ts /\ out[k].ts - out[l].ts > 90
        /\ \A k \in DOMAIN out :
               /\ \E i \in Members(k) : restarts[i][1] = out[k].ts
               /\ \A i \in Members(k) : restarts[i][1] <= out[k].ts
               /\ out[k].timestamp = _fmt_local(out[k].ts)

\* three candidates gave two records exactly 91 s apart, the older one a
\* cluster of two
C22_Witness ==
    /\ rpc = "done"
    /\ Len(restarts) = 3 /\ Len(out) = 2
    /\ out[1].ts - out[2].ts = 91
    /\ Cardinality(Members(2)) = 2
    /\ \E i \in Members(2) : restarts[i][1] < out[2].ts

\* ----------------------------------------------------------------------- C23
\* the message the attribution rule tests for a line: the line's phrasings,
\* 'Provider X is in cooldown' counting as cooldown
LineMsg(l) == [l.msg EXCEPT !.cooldown = @ \/ l.cdProvider # ""]

\* the id and message pairs the line consumed by this step is classified for,
\* in order: its used segments, or its resolved ids with the line's message
Classified ==
    IF line'.failed
    THEN [i \in DOMAIN UsedSegments |-> <<UsedSegments[i].mid, UsedSegments[i].msg>>]
    ELSE LET ids == ResolvedIds(line')
             ordered == SelectSeq([i \in DOMAIN models |-> models[i].model_id],
                                  LAMBDA mid : mid \in ids)
             seq == IF line'.pm # NoRef THEN <<line'.pm>> ELSE ordered
         IN IF KindOf(LineMsg(line')) = "" THEN << >>
            ELSE [i \in DOMAIN seq |-> <<seq[i], LineMsg(line')>>]

\* C23: a line makes exactly one incident per model it is classified for (per
\* used segment for an aggregate), of the first kind in the order cooldown,
\* rate limit, timeout, context limit that its message matches; a message
\* matching cooldown is the yellow cooldown whatever rate-limit text and reset
\* duration it also holds, and raises its row to yellow at most.
C23_FirstMatchWins ==
    [][ (/\ consumed' = consumed + 1
         /\ line'.noKey = "" /\ line'.unknown = NoRef /\ ~line'.notAllowed)
            => /\ Len(log') - Len(log) = Len(Classified)
               /\ \A i \in DOMAIN Classified :
                      LET e == log'[Len(log) + i]
                          msg == Classified[i][2]
                      IN /\ e.mid = Classified[i][1]
                         /\ e.kind = KindOf(msg)
                         /\ msg.cooldown =>
                                /\ e.status = ThrottleStatus
                                /\ Tier(e.post.Status) = IF Applied(e)
                                                         THEN MaxOf(Tier(Pre(e).Status), 2)
                                                         ELSE Tier(Pre(e).Status)
                         /\ (~msg.cooldown /\ msg.rl) => Glyph(e.status) \in {"yellow", "red"}
                         /\ (~msg.cooldown /\ ~msg.rl /\ msg.timeout) => e.status = TimeoutStatus
                         /\ (~msg.cooldown /\ ~msg.rl /\ ~msg.timeout) => e.status = ContextStatus ]_vars

\* a line matching all four phrasings, with a 3 h reset, made one incident:
\* the cooldown, active, and the row is yellow
C23_Witness ==
    /\ consumed = 1
    /\ line.pm = GptX
    /\ line.msg.cooldown /\ line.msg.rl /\ line.msg.timeout /\ line.msg.ctx
    /\ line.msg.reset = Reset3h
    /\ Len(log) = 1
    /\ log[1].kind = "cooldown"
    /\ Applied(log[1])
    /\ matrix[GptX].Status = ThrottleStatus

\* ----------------------------------------------------------------------- C24
\* a main-agent line that is no aggregate, No-API-key, provider-cooldown or
\* unknown-model line and resolves to no model id
UnattributedLine(l) ==
    /\ l.lane \in {"", "main"} /\ l.agentDir \in {"", "main"}
    /\ ~l.failed /\ l.noKey = "" /\ l.cdProvider = ""
    /\ l.unknown = NoRef /\ ~l.notAllowed
    /\ l.pm = NoRef /\ l.quoted = NoRef
    /\ l.ids \cap ModelIds = {}

\* C24: a line no model id can be attributed to changes no row and no
\* last-seen entry and makes no incident; it appends one model-less event when
\* it has rate-limit phrasing, else one when it has context-limit phrasing,
\* else nothing (cooldown and timeout phrasing alone have no effect).
C24_UnattributedOnlyBreadcrumb ==
    [][ (consumed' = consumed + 1 /\ UnattributedLine(line'))
            => /\ matrix' = matrix
               /\ last_seen' = last_seen
               /\ log' = log
               /\ IF line'.msg.rl
                  THEN /\ Len(events') = Len(events) + 1
                       /\ SubSeq(events', 1, Len(events)) = events
                       /\ events'[Len(events')][1] = LocalTime(line'.ts)
                       /\ events'[Len(events')][2] = "rate_limit(unknown model)"
                  ELSE IF line'.msg.ctx
                  THEN events' = Append(events, <<LocalTime(line'.ts),
                                                  "token/context limit (unknown model)">>)
                  ELSE events' = events ]_vars

\* a model-less line with cooldown and timeout phrasing only was consumed and
\* left no trace at all
C24_Witness ==
    /\ consumed = 1
    /\ UnattributedLine(line)
    /\ line.msg.cooldown /\ line.msg.timeout /\ ~line.msg.rl /\ ~line.msg.ctx
    /\ matrix = InitState.matrix
    /\ events = << >>
    /\ log = << >>
    /\ DOMAIN last_seen = {}

\* ----------------------------------------------------------------------- C25
\* C25: in every state of the pass a row that is not green carries neither
\* the generic healthy diagnosis nor a stale-incident breadcrumb: a row with
\* either text is green.
C25_GenericOrBreadcrumbIsGreen ==
    \A mid \in DOMAIN matrix :
        LET d == matrix[mid].Diagnosis
        IN (Len(d) > 0 /\ d[1] \in {"stable", "last anomaly"})
               => Glyph(matrix[mid].Status) = "green"

\* an active incident replaced a breadcrumb when it raised a green row, and an
\* inactive incident met a row that was not green and left its diagnosis
C25_Witness ==
    /\ \E e \in Entries :
           /\ Applied(e)
           /\ IsBreadcrumb(Pre(e).Diagnosis)
           /\ Tier(e.post.Status) > 1
           /\ e.post.Diagnosis = e.diagnosis
    /\ \E e \in Entries :
           /\ Inactive(e)
           /\ Tier(Pre(e).Status) > 1
           /\ e.post.Diagnosis = Pre(e).Diagnosis
           /\ matrix[e.mid].Diagnosis = e.post.Diagnosis

\* ----------------------------------------------------------------------- C26
\* the orders in which the candidates of cands can be scanned
Orders(cands) ==
    {[i \in DOMAIN cands |-> cands[p[i]]] :
        p \in {f \in [DOMAIN cands -> DOMAIN cands] :
                  \A i, j \in DOMAIN cands : i # j => f[i] # f[j]}}

DistinctTimes(cands) ==
    \A i, j \in DOMAIN cands : i # j => cands[i][1] # cands[j][1]

\* C26: when the candidates have pairwise distinct timestamps, every order of
\* scanning them gives the timeline that was returned.
C26_ScanOrderIrrelevant ==
    (rpc = "done" /\ DistinctTimes(restarts))
        => \A q \in Orders(restarts) : analyze_restarts(q, wd_restart_times) = out

\* three candidates with distinct timestamps were returned as two records,
\* one of them re-labelled by a merged-away crash
C26_Witness ==
    /\ rpc = "done"
    /\ Len(restarts) = 3
    /\ DistinctTimes(restarts)
    /\ Cardinality(Orders(restarts)) = 6
    /\ Len(out) = 2
    /\ \E k \in DOMAIN merged :
           restarts[Newest(k)][2] # CrashReason /\ merged[k][2] = CrashReason

\* ----------------------------------------------------------------------- C27
\* the severity tier of every row of a pass state
Tiers(st) == [mid \in DOMAIN st.matrix |-> Tier(st.matrix[mid].Status)]

\* every aggregate segment id of the lines ls is slash-qualified or configured
SegmentIdsKnown(ls) ==
    \A i \in DOMAIN ls :
        ls[i].failed =>
            \A k \in DOMAIN ls[i].segs :
                HasSlash(ls[i].segs[k].mid) \/ ls[i].segs[k].mid \in ModelIds

\* C27: for the lines of a pass whose aggregate segment ids are all
\* slash-qualified or configured, every order of the lines ends with the same
\* rows and the same severity tier in each; and the pass the loop makes line
\* by line ends where the fold over the remaining lines ends.
C27_TiersIndependentOfLineOrder ==
    /\ []((consumed = 0 /\ SegmentIdsKnown(lines))
              => \A q \in Orders(lines) :
                     Tiers(RunLines(State, Config, q)) = Tiers(RunLines(State, Config, lines)))
    /\ [][ consumed' = consumed + 1
               => Tiers(RunLines(State', Config, lines')) = Tiers(RunLines(State, Config, lines)) ]_vars

\* the pass applied the red quota incident to acme/gpt-x before a yellow
\* cooldown and a yellow rate limit; the row ended red
C27_Witness ==
    /\ consumed = 3
    /\ lines = << >>
    /\ Len(log) = 3
    /\ \A i \in DOMAIN log : log[i].mid = GptX /\ Applied(log[i])
    /\ log[1].status = QuotaStatus
    /\ log[2].status # log[3].status
    /\ Tier(log[2].status) = 2 /\ Tier(log[3].status) = 2
    /\ Tier(matrix[GptX].Status) = 3

\* ----------------------------------------------------------------------- C28
\* other values of now_utc and of the two sticky-duration parameters
OtherConfigs ==
    {[now |-> n, cooldown_sticky_minutes |-> c, rate_limit_sticky_minutes |-> r] :
        n \in {0, 1800, 14400, 86400}, c \in {1, DefaultCooldownStickyMinutes},
        r \in {1, DefaultRateLimitStickyMinutes}}

\* what a pass state gives to the return value besides severities and
\* diagnoses: the timeline and the ids that have a row
Outline(st) == <<LastN(Dedup(st.events, {}), EventCap), DOMAIN st.matrix>>

\* C28: a pass over the same lines under any other now_utc, cooldown and
\* rate-limit sticky minutes appends the same events and has rows for the same
\* ids; the loop ends where the fold over the remaining lines ends, and the
\* returned timeline and rows are the ones of that end state.
C28_EventsAndRowKeysIgnoreClock ==
    /\ [](/\ consumed = 0
              => \A cfg \in OtherConfigs :
                     /\ RunLines(State, cfg, lines).events = RunLines(State, Config, lines).events
                     /\ Outline(RunLines(State, cfg, lines)) = Outline(RunLines(State, Config, lines))
          /\ pc = "done"
              => /\ uniq_events = Outline(State)[1]
                 /\ Len(rows) = Cardinality(DOMAIN matrix)
                 /\ \A mid \in DOMAIN matrix :
                        \E k \in DOMAIN rows : rows[k].Provider = ProviderOf(mid)
                                               /\ rows[k].Model = ModelOf(mid))
    /\ [][ consumed' = consumed + 1
               => /\ RunLines(State', Config, lines').events = RunLines(State, Config, lines).events
                  /\ DOMAIN RunLines(State', Config, lines').matrix
                         = DOMAIN RunLines(State, Config, lines).matrix ]_vars

\* at a now_utc where no sticky incident of the lines is active any more, an
\* aggregate's timeout segment still created the row of zeta/z9 and two
\* stale incidents still appended their events, returned in the timeline
C28_Witness ==
    /\ pc = "done"
    /\ now_utc = 14400
    /\ \A i \in DOMAIN log : log[i].sticks /\ ~Applied(log[i])
    /\ \E i \in DOMAIN log : log[i].mid = ZetaZ9 /\ log[i].pre = NoRow
    /\ ZetaZ9 \in DOMAIN matrix
    /\ \A mid \in DOMAIN matrix : matrix[mid].Status = Healthy
    /\ Len(uniq_events) >= 3
    /\ Len(rows) = Len(models) + 1

====
